---- MODULE Spec2Model ----
(***************************************************************************)
(* GeekCode: the per-invocation task orchestrator (Agent.run), its         *)
(* filesystem records (.geekcode/state.yaml, conversation.yaml,            *)
(* cache/responses, cache/meta.yaml, history/<date>.yaml) and the          *)
(* edit-test loop (CodingLoop.run / resume) with its checkpoint            *)
(* (.geekcode/loop/state.yaml).                                            *)
(*                                                                         *)
(* A text is a record [id, len, ht]: the first len characters of the base  *)
(* text id (ht = TRUE: of its head+tail truncation).  Slicing s[:n] is     *)
(* Take.  A dict is a function whose domain is its set of keys.            *)
(***************************************************************************)
EXTENDS Integers, Sequences, FiniteSets, TLC

VARIABLES
    pc,          \* position of the running invocation
    inv,         \* locals of Agent.run
    lp,          \* locals of CodingLoop.run / resume
    stateFile,   \* .geekcode/state.yaml
    convFile,    \* .geekcode/conversation.yaml
    cacheFiles,  \* .geekcode/cache/responses/<task_id>.yaml
    metaFile,    \* .geekcode/cache/meta.yaml
    historyFile, \* .geekcode/history/<date>.yaml
    loopFile,    \* .geekcode/loop/state.yaml
    ws,          \* workspace files
    clock,       \* datetime.utcnow(), in hours
    obs,         \* what the current invocation has done so far
    store,       \* .geekcode/state/<task_id>.yaml of the StateEngine
    call,        \* the last call of a CacheEngine or StateEngine method
    ckpts,       \* .geekcode/state/checkpoints/<file name>.yaml
    summaries,   \* .geekcode/cache/summaries/<hash of the path>.yaml
    procs        \* the positions and locals of two simultaneous Agent.run calls

vars == <<pc, inv, lp, stateFile, convFile, cacheFiles, metaFile,
          historyFile, loopFile, ws, clock, obs, store, call, ckpts, summaries,
          procs>>

\* the checkpoint and summary directories and the simultaneous invocations
extvars == <<ckpts, summaries, procs>>

\* what Agent.run and the CodingLoop never touch
libvars == <<store, call, extvars>>

\* what the CacheEngine and the StateEngine never touch
agentvars == <<pc, inv, lp, obs, stateFile, convFile, historyFile, loopFile, ws>>

fsvars == <<stateFile, convFile, cacheFiles, metaFile, historyFile, loopFile, ws>>

----------------------------------------------------------------------------
(* Bounds of the model *)

MaxRuns == 2        \* invocations (Agent.run, CodingLoop.run, resume) per behaviour
MaxIterArg == 3     \* largest max_iterations passed to CodingLoop.run directly
MaxClock == 25      \* the clock stops advancing here
MaxCalls == 4       \* calls of CacheEngine / StateEngine methods per behaviour
MaxFpCalls == 3     \* calls of Agent._generate_task_id per behaviour
MaxMtime == 2       \* largest modification time of a workspace file

(* Program constants *)

AgentMaxIterations == 5
TtlHours == 24
HitTokens == 500
ConvKeep == 20
ConvTail == 4
PreviewLen == 200
LastResultLen == 500
CkptOutputLen == 500
TestOutputMax == 5000
TestOutputHalf == 2500
EngineTtlHours == 24
RecordHitTokens == 500
HoursPerDay == 24
Year2000 == -100000    \* "2000-01-01", in hours before the start of the clock

\* records, so that they compare with every dict, text and file
Absent == [absent |-> TRUE]
None == [none |-> TRUE]

----------------------------------------------------------------------------
(* Helpers: python slices, dicts *)

Min(a, b) == IF a < b THEN a ELSE b
Max(a, b) == IF a > b THEN a ELSE b

Text(id, n) == [id |-> id, len |-> n, ht |-> FALSE]

\* s[:n] of a str
Take(t, n) == [t EXCEPT !.len = Min(@, n)]

\* s[-n:] of a list
LastN(s, n) == SubSeq(s, Max(1, Len(s) - n + 1), Len(s))

\* d[k] = v
Put(d, k, v) == [x \in DOMAIN d \cup {k} |-> IF x = k THEN v ELSE d[x]]

\* d.get(k, default)
Get(d, k, default) == IF k \in DOMAIN d THEN d[k] ELSE default

\* bool(x) of a str or None
Truthy(t) == t # None /\ t.len > 0

EmptyDict == [x \in {} |-> None]

\* d without the key k: the directory d after unlink of the file k
Remove(d, k) == [x \in DOMAIN d \ {k} |-> d[x]]

(* Helpers: timestamps and YAML documents *)

\* datetime.isoformat(): the text of a time
isoformat(t) == [iso |-> t]

\* a text that datetime.fromisoformat rejects (ValueError)
Malformed == [text |-> "yesterday"]

\* does datetime.fromisoformat(s) parse s?
IsIso(s) == "iso" \in DOMAIN s

\* datetime.fromisoformat(s) of a text it parses
fromisoformat(s) == s.iso

\* what yaml.safe_load gives for a file that is not a mapping: None for an empty
\* file, a scalar or list otherwise (no .get method)
Scalar == [scalar |-> TRUE]

IsNone(d) == "none" \in DOMAIN d

IsScalar(d) == "scalar" \in DOMAIN d

IsAbsent(d) == "absent" \in DOMAIN d

\* yaml.safe_load(f) or {}
OrEmpty(d) == IF IsNone(d) THEN EmptyDict ELSE d

\* not data
Falsy(d) == IsNone(d) \/ DOMAIN d = {}

----------------------------------------------------------------------------
(* Inputs: tasks, file lists, provider responses *)

Tasks == {"Fix auth.py", "add unit tests", "bug in auth.py", "Explain how caching works"}

\* task.split()
TaskWords(task) ==
    CASE task = "Fix auth.py" -> {"Fix", "auth.py"}
      [] task = "add unit tests" -> {"add", "unit", "tests"}
      [] task = "bug in auth.py" -> {"bug", "in", "auth.py"}
      [] OTHER -> {"Explain", "how", "caching", "works"}

\* len(task)
TaskLen(task) ==
    CASE task = "Fix auth.py" -> 11
      [] task = "add unit tests" -> 14
      [] task = "bug in auth.py" -> 14
      [] OTHER -> 25

TaskText(task) == Text(task, TaskLen(task))

\* str.lower() on the words of the tasks
Lower(w) ==
    CASE w = "Fix" -> "fix"
      [] w = "Explain" -> "explain"
      [] OTHER -> w

_CODING_VERBS ==
    {"fix", "add", "implement", "refactor", "update", "change", "modify",
     "write", "create", "delete", "remove", "rename", "move", "extract",
     "optimize", "improve", "debug", "patch", "rewrite", "convert"}

_CODING_NOUNS ==
    {"function", "method", "class", "module", "test", "tests", "bug",
     "error", "endpoint", "route", "handler", "middleware", "model",
     "schema", "migration", "config", "component", "service", "api",
     "interface", "type", "enum", "struct", "trait", "decorator",
     "validator", "serializer", "controller", "factory", "helper"}

\* re.search(r'\w+\.\w{1,5}\b', task): the pattern cannot span whitespace, so it
\* matches the task iff it matches inside one of its words
HasFileRef(task) == \E w \in TaskWords(task) : w \in {"auth.py", "notes.md", "pytest.ini"}

\* a variant that takes any file name for a request to change code
is_coding_task_AnyFileRef(task) ==
    LET words == {Lower(w) : w \in TaskWords(task)}
        has_verb == (words \cap _CODING_VERBS) # {}
        has_noun == (words \cap _CODING_NOUNS) # {}
        has_file_ref == HasFileRef(task)
    IN  (has_verb /\ has_noun) \/ has_file_ref

\* is_coding_task
is_coding_task(task) ==
    LET words == {Lower(w) : w \in TaskWords(task)}
        has_verb == (words \cap _CODING_VERBS) # {}
        has_noun == (words \cap _CODING_NOUNS) # {}
        has_file_ref == HasFileRef(task)
    IN  (has_verb /\ has_noun) \/ (has_verb /\ has_file_ref)

\* the files argument of Agent.run
FileLists == {<<>>, <<"auth.py">>}

\* lexicographic order of the paths, for sorted(files)
PathRank(p) ==
    CASE p = "auth.py" -> 1
      [] p = "notes.md" -> 2
      [] OTHER -> 3

RECURSIVE Insert(_, _)
Insert(p, s) ==
    IF s = <<>> THEN <<p>>
    ELSE IF PathRank(p) <= PathRank(Head(s)) THEN <<p>> \o s
    ELSE <<Head(s)>> \o Insert(p, Tail(s))

\* a variant that takes the files in the order given
sorted_AsListed(files) == files

RECURSIVE sorted(_)
sorted(files) == IF files = <<>> THEN <<>> ELSE Insert(Head(files), sorted(Tail(files)))

\* what provider.complete returns on the single-completion path
Completions ==
    { [content |-> Text("empty", 0), model |-> "m1", token_usage |-> 3],
      [content |-> Text("answer", 42), model |-> "m1", token_usage |-> 7],
      [content |-> Text("essay", 700), model |-> "m1", token_usage |-> 9] }

----------------------------------------------------------------------------
(* Workspace files *)

Exists(p) == p \in DOMAIN ws /\ ws[p] # Absent

Paths == {"auth.py", "notes.md", "pytest.ini"}

File(content, mtime) == [content |-> content, mtime |-> mtime]

----------------------------------------------------------------------------
(* Agent: file read operations *)

\* Agent._read_state
_read_state == IF stateFile = Absent THEN [status |-> "idle"] ELSE stateFile

\* Agent._read_config: no .geekcode/config.yaml
_read_config == EmptyDict

\* Agent._read_conversation
_read_conversation == IF convFile = Absent THEN <<>> ELSE convFile

\* Agent._generate_task_id.  The sha256 digest is modelled by the content it is
\* computed from: the task, the (path, mtime) of each existing file in sorted
\* order, and the last 4 conversation messages.
RECURSIVE FileStamps(_)
FileStamps(files) ==
    IF files = <<>> THEN <<>>
    ELSE (IF Exists(Head(files)) THEN << <<Head(files), ws[Head(files)].mtime>> >> ELSE <<>>)
         \o FileStamps(Tail(files))

\* a variant that leaves the conversation out of the digest
_generate_task_id_NoConversation(task, files, conversation) ==
    [task |-> task,
     files |-> FileStamps(sorted(files)),
     conv |-> <<>>]

_generate_task_id(task, files, conversation) ==
    [task |-> task,
     files |-> FileStamps(sorted(files)),
     conv |-> LastN(conversation, ConvTail)]

\* Agent._estimate_tokens(task + cached)
_estimate_tokens(n) == n \div 4

\* Agent._increment_cache_hits
_increment_cache_hits(meta) ==
    LET m == IF IsAbsent(meta) THEN EmptyDict ELSE OrEmpty(meta)
    IN  Put(Put(m, "hits", Get(m, "hits", 0) + 1),
            "tokens_saved", Get(m, "tokens_saved", 0) + HitTokens)

\* datetime.utcnow() - cache_time > timedelta(hours=24)
ExpiredAt(entry, now) == now - fromisoformat(entry.cached_at) > TtlHours

Expired(entry) == ExpiredAt(entry, clock)

\* Agent._read_cache: [value, files, meta] = the returned payload, and the cache
\* files and meta file it leaves
\* exc names the exception that leaves the method, "none" if it returns
_read_cache(task_id) ==
    LET same(value, exc) ==
            [value |-> value, files |-> cacheFiles, meta |-> metaFile, exc |-> exc]
    IN  IF task_id \notin DOMAIN cacheFiles THEN same(None, "none")
        ELSE LET data == OrEmpty(cacheFiles[task_id])
             IN  IF IsScalar(data) THEN same(None, "AttributeError")
                 ELSE IF "cached_at" \in DOMAIN data /\ ~IsIso(data.cached_at)
                 THEN same(None, "ValueError")
                 ELSE IF "cached_at" \in DOMAIN data /\ Expired(data)
                 THEN [value |-> None, files |-> Remove(cacheFiles, task_id),
                       meta |-> metaFile, exc |-> "none"]
                 ELSE IF IsScalar(metaFile) THEN same(None, "AttributeError")
                 ELSE [value |-> Get(data, "response", None), files |-> cacheFiles,
                       meta |-> _increment_cache_hits(metaFile), exc |-> "none"]

(* Agent: file write operations *)

\* a variant that keeps the oldest messages
_write_conversation_KeepOldest(conversation) ==
    SubSeq(conversation, 1, Min(Len(conversation), ConvKeep))

\* Agent._write_conversation
_write_conversation(conversation) == LastN(conversation, ConvKeep)

\* a variant that keeps an entry that is already there
_write_cache_KeepFirst(task_id, response) ==
    IF task_id \in DOMAIN cacheFiles THEN cacheFiles
    ELSE Put(cacheFiles, task_id, [cached_at |-> isoformat(clock), response |-> response])

\* Agent._write_cache
_write_cache(task_id, response) ==
    Put(cacheFiles, task_id, [cached_at |-> isoformat(clock), response |-> response])

\* Agent._write_history
Today == clock \div 24

_write_history(task, response, cached) ==
    LET history == Get(historyFile, Today, <<>>)
    IN  Put(historyFile, Today,
            Append(history, [timestamp |-> clock,
                             task |-> Take(TaskText(task), PreviewLen),
                             response_preview |-> Take(response, PreviewLen),
                             cached |-> cached]))

TaskResult(output, task_id, model, tokens_used, tokens_saved, cached, completed, error) ==
    [output |-> output, task_id |-> task_id, model |-> model,
     tokens_used |-> tokens_used, tokens_saved |-> tokens_saved,
     cached |-> cached, completed |-> completed, error |-> error]

----------------------------------------------------------------------------
(* CodingLoop: edits.  A file's content and an edit's old/new content are   *)
(* sequences of lines.                                                      *)

EditBlock(file, old, new) == [kind |-> "EDIT", file |-> file, old |-> old, new |-> new]
CreateBlock(file, new) == [kind |-> "CREATE", file |-> file, old |-> <<>>, new |-> new]

\* what provider.complete returns inside the loop: the blocks of the response
\* text, in the order of the text
AgentLoopCompletions ==
    { [blocks |-> << EditBlock("auth.py", <<"a">>, <<"b">>) >>, token_usage |-> 11] }

LoopCompletions ==
    { [blocks |-> <<>>, token_usage |-> 5],
      [blocks |-> << EditBlock("auth.py", <<"a">>, <<"b">>) >>, token_usage |-> 11],
      [blocks |-> << CreateBlock("notes.md", <<"x">>),
                     EditBlock("notes.md", <<"x">>, <<"y">>) >>, token_usage |-> 13],
      [blocks |-> << CreateBlock("pytest.ini", <<"[pytest]">>) >>, token_usage |-> 7] }

Edit(b) == [file_path |-> b.file, old_content |-> b.old, new_content |-> b.new,
            is_create |-> (b.kind = "CREATE")]

RECURSIVE MapEdit(_)
MapEdit(bs) == IF bs = <<>> THEN <<>> ELSE <<Edit(Head(bs))>> \o MapEdit(Tail(bs))

IsEditBlock(b) == b.kind = "EDIT"
IsCreateBlock(b) == b.kind = "CREATE"

\* CodingLoop._parse_edits: every EDIT block, then every CREATE block
_parse_edits(blocks) ==
    MapEdit(SelectSeq(blocks, IsEditBlock)) \o MapEdit(SelectSeq(blocks, IsCreateBlock))

\* old in content, at position i
OccursAt(old, content, i) ==
    /\ i + Len(old) - 1 <= Len(content)
    /\ SubSeq(content, i, i + Len(old) - 1) = old

Occurs(old, content) == \E i \in 1..(Len(content) + 1) : OccursAt(old, content, i)

\* a variant that finds the last occurrence
FirstOccurrence_Last(old, content) ==
    CHOOSE i \in 1..(Len(content) + 1) :
        /\ OccursAt(old, content, i)
        /\ \A j \in (i + 1)..(Len(content) + 1) : ~OccursAt(old, content, j)

\* content.find(old): the first occurrence
FirstOccurrence(old, content) ==
    CHOOSE i \in 1..(Len(content) + 1) :
        /\ OccursAt(old, content, i)
        /\ \A j \in 1..(i - 1) : ~OccursAt(old, content, j)

\* content.replace(old, new, 1)
ReplaceFirst(content, old, new) ==
    LET i == FirstOccurrence(old, content)
    IN  SubSeq(content, 1, i - 1) \o new \o SubSeq(content, i + Len(old), Len(content))

WsExists(w, p) == p \in DOMAIN w /\ w[p] # Absent

\* path.write_text(content)
WriteText(w, p, content) ==
    [w EXCEPT ![p] = File(content, IF WsExists(w, p) THEN w[p].mtime + 1 ELSE 1)]

\* one pass of the loop body of CodingLoop._apply_edits: [ws, applied]
ApplyOne(w, edit) ==
    IF edit.is_create
    THEN [ws |-> WriteText(w, edit.file_path, edit.new_content),
          applied |-> [file |-> edit.file_path, action |-> "create",
                       applied |-> TRUE]]
    ELSE IF ~WsExists(w, edit.file_path)
    THEN [ws |-> w,
          applied |-> [file |-> edit.file_path, action |-> "edit",
                       applied |-> FALSE, error |-> "file not found"]]
    ELSE IF Occurs(edit.old_content, w[edit.file_path].content)
    THEN [ws |-> WriteText(w, edit.file_path,
                           ReplaceFirst(w[edit.file_path].content,
                                        edit.old_content, edit.new_content)),
          applied |-> [file |-> edit.file_path, action |-> "edit",
                       applied |-> TRUE]]
    ELSE [ws |-> w,
          applied |-> [file |-> edit.file_path, action |-> "edit",
                       applied |-> FALSE, error |-> "old content not found"]]

\* a variant that gives up at the first edit that fails
RECURSIVE _apply_edits_StopAtFailure(_, _)
_apply_edits_StopAtFailure(w, edits) ==
    IF edits = <<>> THEN [ws |-> w, applied |-> <<>>]
    ELSE LET one == ApplyOne(w, Head(edits))
             rest == IF one.applied.applied
                     THEN _apply_edits_StopAtFailure(one.ws, Tail(edits))
                     ELSE [ws |-> one.ws, applied |-> <<>>]
         IN  [ws |-> rest.ws, applied |-> <<one.applied>> \o rest.applied]

\* CodingLoop._apply_edits: [ws, applied]
RECURSIVE _apply_edits(_, _)
_apply_edits(w, edits) ==
    IF edits = <<>> THEN [ws |-> w, applied |-> <<>>]
    ELSE LET one == ApplyOne(w, Head(edits))
             rest == _apply_edits(one.ws, Tail(edits))
         IN  [ws |-> rest.ws, applied |-> <<one.applied>> \o rest.applied]

----------------------------------------------------------------------------
(* CodingLoop: test detection and execution *)

HasLine(w, p, line) == \E i \in 1..Len(w[p].content) : w[p].content[i] = line

EndsWithPy(f) == f \in {"auth.py"}

\* CodingLoop._detect_test_command, over the workspace w; None when nothing is detected
_detect_test_command(w, files) ==
    IF WsExists(w, "pytest.ini") THEN [cmd |-> "python -m pytest"]
    ELSE IF WsExists(w, "pyproject.toml") /\ HasLine(w, "pyproject.toml", "[tool.pytest")
    THEN [cmd |-> "python -m pytest"]
    ELSE IF WsExists(w, "setup.cfg") /\ HasLine(w, "setup.cfg", "[tool:pytest]")
    THEN [cmd |-> "python -m pytest"]
    ELSE IF WsExists(w, "package.json") /\ HasLine(w, "package.json", "scripts.test")
    THEN [cmd |-> "npm test"]
    ELSE IF WsExists(w, "vitest.config.js") THEN [cmd |-> "npx vitest run"]
    ELSE IF WsExists(w, "go.mod") THEN [cmd |-> "go test ./..."]
    ELSE IF WsExists(w, "Cargo.toml") THEN [cmd |-> "cargo test"]
    ELSE IF WsExists(w, "Makefile") /\ HasLine(w, "Makefile", "test:")
    THEN [cmd |-> "make test"]
    ELSE IF \E i \in 1..Len(files) : EndsWithPy(files[i])
    THEN [cmd |-> "python -m pytest"]
    ELSE None

\* what the test subprocess does: it exits with returncode and output, or it
\* exceeds the timeout
AgentTestRuns ==
    { [kind |-> "exit", returncode |-> 0, output |-> Text("2 passed", 20)],
      [kind |-> "exit", returncode |-> 1, output |-> Text("1 failed", 800)] }

\* the task and files arguments of CodingLoop.run
LoopTasks == {"Fix auth.py"}
LoopFileLists == {<<"auth.py">>, <<"notes.md">>}

TestRuns ==
    { [kind |-> "exit", returncode |-> 0, output |-> Text("2 passed", 20)],
      [kind |-> "exit", returncode |-> 1, output |-> Text("1 failed", 800)],
      [kind |-> "timeout", returncode |-> 1, output |-> Text("", 0)] }

\* CodingLoop._run_tests: [passed, output]
_run_tests(run) ==
    IF run.kind = "timeout"
    THEN [passed |-> FALSE, output |-> Text("Tests timed out after 60s", 25)]
    ELSE [passed |-> (run.returncode = 0),
          output |-> IF run.output.len > TestOutputMax
                     THEN [id |-> run.output.id, len |-> 2 * TestOutputHalf + 5, ht |-> TRUE]
                     ELSE run.output]

IterationResult(iteration, edits_applied, test_command, test_passed, test_output, tokens_used) ==
    [iteration |-> iteration, edits_applied |-> edits_applied,
     test_command |-> test_command, test_passed |-> test_passed,
     test_output |-> test_output, tokens_used |-> tokens_used]

\* CodingLoop._iterate once the provider has answered: [ws, result]
_iterate(w, files, response, run, iteration) ==
    LET edits == _parse_edits(response.blocks)
        done == _apply_edits(w, edits)
        test_command == _detect_test_command(done.ws, files)
        tested == IF test_command # None
                  THEN _run_tests(run)
                  ELSE [passed |-> TRUE,
                        output |-> Text("No test framework detected. Edits applied.", 42)]
    IN  [ws |-> done.ws,
         result |-> IterationResult(iteration, done.applied, test_command,
                                    tested.passed, tested.output, response.token_usage)]

----------------------------------------------------------------------------
(* CodingLoop: checkpoint and summary *)

RECURSIVE CkptIterations_Renumbered(_)
\* a variant that numbers every record by its place from the end
CkptIterations_Renumbered(iterations) ==
    IF iterations = <<>> THEN <<>>
    ELSE LET r == Head(iterations)
         IN  << [number |-> Len(iterations), edits |-> r.edits_applied,
                 test_passed |-> r.test_passed,
                 test_output |-> Take(r.test_output, CkptOutputLen),
                 tokens |-> r.tokens_used] >> \o CkptIterations_Renumbered(Tail(iterations))

RECURSIVE CkptIterations(_)
\* the "iterations" list of a checkpoint, from the IterationResults
CkptIterations(iterations) ==
    IF iterations = <<>> THEN <<>>
    ELSE LET r == Head(iterations)
         IN  << [number |-> r.iteration, edits |-> r.edits_applied,
                 test_passed |-> r.test_passed,
                 test_output |-> Take(r.test_output, CkptOutputLen),
                 tokens |-> r.tokens_used] >> \o CkptIterations(Tail(iterations))

\* the checkpoint CodingLoop.run writes before the first iteration
InitialCheckpoint(task, files, max_iterations, test_command) ==
    [task |-> task, files |-> files, iteration |-> 0,
     max_iterations |-> max_iterations, test_command |-> test_command,
     iterations |-> <<>>, status |-> "running", started_at |-> clock]

\* the checkpoint run and resume write after iteration i
IterationCheckpoint(task, files, i, max_iterations, test_command, iterations, passed) ==
    [task |-> task, files |-> files, iteration |-> i,
     max_iterations |-> max_iterations, test_command |-> test_command,
     iterations |-> CkptIterations(iterations),
     status |-> IF passed THEN "completed" ELSE "running",
     updated_at |-> clock]

\* the checkpoint CodingLoop.run writes after the loop
FinalCheckpoint(task, files, max_iterations, test_command, iterations, total_tokens, success) ==
    [task |-> task, files |-> files, iteration |-> Len(iterations),
     max_iterations |-> max_iterations, test_command |-> test_command,
     iterations |-> CkptIterations(iterations),
     status |-> IF success THEN "completed" ELSE "failed",
     total_tokens |-> total_tokens, completed_at |-> clock]

\* CodingLoop._load_checkpoint
_load_checkpoint == IF loopFile = Absent THEN None ELSE loopFile

\* iterations[-1].test_passed if iterations else False
Success(iterations) ==
    IF iterations = <<>> THEN FALSE ELSE iterations[Len(iterations)].test_passed

\* CodingLoop._build_summary: the headline, and a length that grows with the
\* iterations and, on failure, with the last test output (cut at 1000)
_build_summary(iterations, success) ==
    Text(IF success THEN "Task completed" ELSE "Task incomplete",
         60 + 45 * Len(iterations)
            + (IF ~success /\ iterations # <<>>
               THEN Min(iterations[Len(iterations)].test_output.len, 1000)
               ELSE 0))

LoopResult(task, iterations, total_tokens, success, final_output) ==
    [task |-> task, iterations |-> iterations, total_tokens |-> total_tokens,
     success |-> success, final_output |-> final_output]

\* the IterationResults resume rebuilds from a checkpoint
RECURSIVE RebuildIterations(_, _)
RebuildIterations(its, test_command) ==
    IF its = <<>> THEN <<>>
    ELSE LET it == Head(its)
         IN  << IterationResult(it.number, Get(it, "edits", <<>>), test_command,
                                Get(it, "test_passed", FALSE),
                                Get(it, "test_output", Text("", 0)),
                                Get(it, "tokens", 0)) >>
             \o RebuildIterations(Tail(its), test_command)

RECURSIVE SumTokens(_)
SumTokens(iterations) ==
    IF iterations = <<>> THEN 0
    ELSE Head(iterations).tokens_used + SumTokens(Tail(iterations))

----------------------------------------------------------------------------
(* The state machine *)

Quiescent == pc \in {"idle", "returned", "raised"}

Snapshot ==
    [state |-> stateFile, conv |-> convFile, cache |-> cacheFiles,
     meta |-> metaFile, history |-> historyFile, clock |-> clock]

\* obs at the start of an invocation of the given kind
Begin(kind) ==
    [runs |-> obs.runs + 1, kind |-> kind, path |-> "none", provider |-> 0,
     loops |-> 0, iters |-> 0, afterPass |-> FALSE, hits |-> 0, pfail |-> 0,
     wrote |-> {}, exc |-> "none", start |-> Snapshot]

InvNone == [task |-> "none"]
LpNone == [mode |-> "none", ret |-> None]

Err(msg) == [msg |-> msg]

CallNone == [n |-> 0, op |-> "none"]

\* the two simultaneous invocations, before they start
Procs == {1, 2}
ProcIdle == [pc |-> "idle"]

Init ==
    /\ pc = "idle"
    /\ store = EmptyDict
    /\ call = CallNone
    /\ ckpts = EmptyDict
    /\ summaries = EmptyDict
    /\ procs = [p \in Procs |-> ProcIdle]
    /\ inv = InvNone
    /\ lp = LpNone
    /\ stateFile = Absent
    /\ convFile = Absent
    /\ cacheFiles = EmptyDict
    /\ metaFile = Absent
    /\ historyFile = EmptyDict
    /\ loopFile = Absent
    /\ ws = [p \in Paths |-> IF p = "auth.py" THEN File(<<"a", "b", "a">>, 1) ELSE Absent]
    /\ clock = 0
    /\ obs = [runs |-> 0, kind |-> "none", path |-> "none", provider |-> 0,
              loops |-> 0, iters |-> 0, afterPass |-> FALSE, hits |-> 0, pfail |-> 0,
              wrote |-> {}, exc |-> "none", start |-> Snapshot]

(* Agent.run *)

\* READ PHASE and task id
AgentRun(task, files) ==
    /\ Quiescent
    /\ obs.runs < MaxRuns
    /\ inv' = [task |-> task, files |-> files,
               state |-> _read_state, config |-> _read_config,
               conversation |-> _read_conversation,
               task_id |-> _generate_task_id(task, files, _read_conversation),
               cached |-> None, response |-> None, result |-> None]
    /\ lp' = LpNone
    /\ obs' = Begin("agent")
    /\ pc' = "cache_check"
    /\ UNCHANGED <<fsvars, clock>>
    /\ UNCHANGED libvars

\* if files and is_coding_task(task)
Strategy(task, files) ==
    IF files # <<>> /\ is_coding_task(task) THEN "loop" ELSE "single"

\* if cached: ... else strategy selection
PathAfterCache(cached, task, files) ==
    IF Truthy(cached) THEN "cached" ELSE Strategy(task, files)

\* CACHE CHECK, and the choice of the path
AgentCacheCheck ==
    /\ pc = "cache_check"
    /\ LET r == _read_cache(inv.task_id)
           path == PathAfterCache(r.value, inv.task, inv.files)
       IN  /\ cacheFiles' = r.files
           /\ metaFile' = r.meta
           /\ inv' = [inv EXCEPT !.cached = r.value]
           /\ obs' = [obs EXCEPT !.hits = @ + (IF r.meta # metaFile THEN 1 ELSE 0),
                                 !.path = path]
           /\ pc' = CASE path = "cached" -> "hit_history"
                      [] path = "loop" -> "loop_start"
                      [] OTHER -> "context"
    /\ UNCHANGED <<lp, stateFile, convFile, historyFile, loopFile, ws, clock>>
    /\ UNCHANGED libvars

\* the cached answer: history entry and return
AgentHitHistory ==
    /\ pc = "hit_history"
    /\ historyFile' = _write_history(inv.task, inv.cached, TRUE)
    /\ inv' = [inv EXCEPT !.result =
                 TaskResult(inv.cached, inv.task_id, Get(inv.config, "model", "unknown"),
                            0, _estimate_tokens(TaskLen(inv.task) + inv.cached.len),
                            TRUE, TRUE, None)]
    /\ obs' = [obs EXCEPT !.wrote = @ \cup {"history"}]
    /\ pc' = "returned"
    /\ UNCHANGED <<lp, stateFile, convFile, cacheFiles, metaFile, loopFile, ws, clock>>
    /\ UNCHANGED libvars

\* CONTEXT PHASE
AgentBuildContext ==
    /\ pc = "context"
    /\ pc' = "mark_running"
    /\ UNCHANGED <<inv, lp, fsvars, clock, obs>>
    /\ UNCHANGED libvars

\* state["status"] = "running" ... self._write_state(state)
RunningState(state, task, task_id) ==
    Put(Put(Put(Put(state, "status", "running"), "current_task", task),
            "task_id", task_id), "started_at", clock)

AgentMarkRunning ==
    /\ pc = "mark_running"
    /\ LET state == RunningState(inv.state, inv.task, inv.task_id)
       IN  /\ inv' = [inv EXCEPT !.state = state]
           /\ stateFile' = state
    /\ obs' = [obs EXCEPT !.wrote = @ \cup {"state"}]
    /\ pc' = "execute"
    /\ UNCHANGED <<lp, convFile, cacheFiles, metaFile, historyFile, loopFile, ws, clock>>
    /\ UNCHANGED libvars

\* a failure of the context build or of the first state write: outside the try
AgentFailOutsideTry ==
    /\ pc \in {"context", "mark_running"}
    /\ obs' = [obs EXCEPT !.exc = "OSError"]
    /\ pc' = "raised"
    /\ UNCHANGED <<inv, lp, fsvars, clock>>
    /\ UNCHANGED libvars

\* EXECUTE PHASE: prompt, provider, provider.complete
AgentExecute(response) ==
    /\ pc = "execute"
    /\ inv' = [inv EXCEPT !.response = response]
    /\ obs' = [obs EXCEPT !.provider = @ + 1]
    /\ pc' = "write_conv"
    /\ UNCHANGED <<lp, fsvars, clock>>
    /\ UNCHANGED libvars

AgentWriteConversation ==
    /\ pc = "write_conv"
    /\ LET conversation ==
               inv.conversation
               \o << [role |-> "user", content |-> TaskText(inv.task)],
                     [role |-> "assistant", content |-> inv.response.content] >>
       IN  /\ inv' = [inv EXCEPT !.conversation = conversation]
           /\ convFile' = _write_conversation(conversation)
    /\ obs' = [obs EXCEPT !.wrote = @ \cup {"conversation"}]
    /\ pc' = "write_cache"
    /\ UNCHANGED <<lp, stateFile, cacheFiles, metaFile, historyFile, loopFile, ws, clock>>
    /\ UNCHANGED libvars

AgentWriteCache ==
    /\ pc = "write_cache"
    /\ cacheFiles' = _write_cache(inv.task_id, inv.response.content)
    /\ obs' = [obs EXCEPT !.wrote = @ \cup {"cache"}]
    /\ pc' = "write_state"
    /\ UNCHANGED <<inv, lp, stateFile, convFile, metaFile, historyFile, loopFile, ws, clock>>
    /\ UNCHANGED libvars

\* a variant that leaves the status as it is
CompletedState_StatusKept(state, response, task_id) ==
    Put(Put(Put(state, "completed_at", clock),
            "last_result", Take(response.content, LastResultLen)),
        "last_task_id", task_id)

\* state["status"] = "completed" ...
CompletedState(state, response, task_id) ==
    Put(Put(Put(Put(state, "status", "completed"), "completed_at", clock),
            "last_result", Take(response.content, LastResultLen)),
        "last_task_id", task_id)

AgentWriteCompleted ==
    /\ pc = "write_state"
    /\ LET state == CompletedState(inv.state, inv.response, inv.task_id)
       IN  /\ inv' = [inv EXCEPT !.state = state]
           /\ stateFile' = state
    /\ obs' = [obs EXCEPT !.wrote = @ \cup {"state"}]
    /\ pc' = "write_history"
    /\ UNCHANGED <<lp, convFile, cacheFiles, metaFile, historyFile, loopFile, ws, clock>>
    /\ UNCHANGED libvars

AgentWriteHistory ==
    /\ pc = "write_history"
    /\ historyFile' = _write_history(inv.task, inv.response.content, FALSE)
    /\ inv' = [inv EXCEPT !.result =
                 TaskResult(inv.response.content, inv.task_id, inv.response.model,
                            inv.response.token_usage, 0, FALSE, TRUE, None)]
    /\ obs' = [obs EXCEPT !.wrote = @ \cup {"history"}]
    /\ pc' = "returned"
    /\ UNCHANGED <<lp, stateFile, convFile, cacheFiles, metaFile, loopFile, ws, clock>>
    /\ UNCHANGED libvars

\* the statements of the try block
TrySteps == {"execute", "write_conv", "write_cache", "write_state", "write_history"}

\* the state dict as the except clauses find it: the assignments that precede
\* the failing write have been made
StateInHandler ==
    IF pc = "write_state"
    THEN CompletedState(inv.state, inv.response, inv.task_id)
    ELSE inv.state

\* except Exception
ErrorState(state, e) ==
    Put(Put(Put(state, "status", "error"), "error", e), "error_at", clock)

AgentFail ==
    /\ pc \in TrySteps
    /\ LET e == Err(pc)
           state == ErrorState(StateInHandler, e)
       IN  /\ stateFile' = state
           /\ inv' = [inv EXCEPT !.state = state,
                                 !.result = TaskResult(Text("", 0), inv.task_id,
                                                Get(inv.config, "model", "unknown"),
                                                0, 0, FALSE, FALSE, e)]
    /\ obs' = [obs EXCEPT !.provider = @ + (IF pc = "execute" THEN 1 ELSE 0),
                          !.pfail = @ + (IF pc = "execute" THEN 1 ELSE 0),
                          !.wrote = @ \cup {"state"}]
    /\ pc' = "returned"
    /\ UNCHANGED <<lp, convFile, cacheFiles, metaFile, historyFile, loopFile, ws, clock>>
    /\ UNCHANGED libvars

\* except KeyboardInterrupt
PausedState(state) == Put(Put(state, "status", "paused"), "paused_at", clock)

AgentInterrupt ==
    /\ pc \in TrySteps
    /\ LET state == PausedState(StateInHandler)
       IN  /\ stateFile' = state
           /\ inv' = [inv EXCEPT !.state = state]
    /\ obs' = [obs EXCEPT !.exc = "KeyboardInterrupt", !.wrote = @ \cup {"state"}]
    /\ pc' = "raised"
    /\ UNCHANGED <<lp, convFile, cacheFiles, metaFile, historyFile, loopFile, ws, clock>>
    /\ UNCHANGED libvars

\* a KeyboardInterrupt anywhere else: nothing catches it
InterruptOutsideTry ==
    /\ pc \in {"cache_check", "hit_history", "context", "mark_running",
               "loop_start", "loop_iter", "loop_ckpt", "loop_end", "loop_history"}
    /\ obs' = [obs EXCEPT !.exc = "KeyboardInterrupt"]
    /\ pc' = "raised"
    /\ UNCHANGED <<inv, lp, fsvars, clock>>
    /\ UNCHANGED libvars

\* Agent.clear_conversation
ClearConversation ==
    /\ Quiescent
    /\ convFile # Absent
    /\ convFile' = Absent
    /\ UNCHANGED <<pc, inv, lp, stateFile, cacheFiles, metaFile, historyFile,
                   loopFile, ws, clock, obs>>
    /\ UNCHANGED libvars

\* time passes between invocations
Tick(d) ==
    /\ Quiescent
    /\ clock + d <= MaxClock
    /\ clock' = clock + d
    /\ UNCHANGED <<pc, inv, lp, fsvars, obs>>
    /\ UNCHANGED libvars

----------------------------------------------------------------------------
(* CodingLoop.run and CodingLoop.resume *)

\* the locals of run() after the initial checkpoint
RunLocals(caller, task, files, max_iterations) ==
    [caller |-> caller, mode |-> "run", task |-> task, files |-> files,
     max_iterations |-> max_iterations,
     test_command |-> _detect_test_command(ws, files),
     iterations |-> <<>>, total_tokens |-> 0,
     prev_test_output |-> Text("", 0), i |-> 1, result |-> None, ret |-> None]

\* a variant whose range stops one short: range(first, max_iterations)
InRange_Exclusive(i, max_iterations) == i < max_iterations

\* for i in range(first, max_iterations + 1): is there an iteration i?
InRange(i, max_iterations) == i <= max_iterations

\* a variant without the break
AfterIteration_NoBreak(passed, i, max_iterations) ==
    IF InRange(i + 1, max_iterations) THEN "loop_iter" ELSE "loop_end"

\* where the loop goes after the checkpoint of iteration i:
\* if result.test_passed: break, else the next i of the range
AfterIteration(passed, i, max_iterations) ==
    IF passed THEN "loop_end"
    ELSE IF InRange(i + 1, max_iterations) THEN "loop_iter" ELSE "loop_end"

\* loop = CodingLoop(...); loop.run(task, files, config=config, max_iterations=5):
\* test detection and the initial checkpoint
AgentLoopStart ==
    /\ pc = "loop_start"
    /\ lp' = RunLocals("agent", inv.task, inv.files, AgentMaxIterations)
    /\ loopFile' = InitialCheckpoint(inv.task, inv.files, AgentMaxIterations,
                                     _detect_test_command(ws, inv.files))
    /\ obs' = [obs EXCEPT !.loops = @ + 1, !.wrote = @ \cup {"loop"}]
    /\ pc' = IF InRange(1, AgentMaxIterations) THEN "loop_iter" ELSE "loop_end"
    /\ UNCHANGED <<inv, stateFile, convFile, cacheFiles, metaFile, historyFile, ws, clock>>
    /\ UNCHANGED libvars

\* CodingLoop.run called directly
LoopRun(task, files, max_iterations) ==
    /\ Quiescent
    /\ obs.runs < MaxRuns
    /\ inv' = InvNone
    /\ lp' = RunLocals("direct", task, files, max_iterations)
    /\ loopFile' = InitialCheckpoint(task, files, max_iterations,
                                     _detect_test_command(ws, files))
    /\ obs' = [Begin("run") EXCEPT !.loops = 1, !.path = "loop", !.wrote = {"loop"}]
    /\ pc' = IF InRange(1, max_iterations) THEN "loop_iter" ELSE "loop_end"
    /\ UNCHANGED <<stateFile, convFile, cacheFiles, metaFile, historyFile, ws, clock>>
    /\ UNCHANGED libvars

\* a variant that repeats the checkpoint's iteration
ResumeFirst_SameIteration(state) == Get(state, "iteration", 0)

\* state.get("iteration", 0) + 1: the first iteration of a resume
ResumeFirst(state) == Get(state, "iteration", 0) + 1

\* the locals of resume() before its loop
ResumeLocals(state) ==
    LET test_command == Get(state, "test_command", None)
        iterations == RebuildIterations(Get(state, "iterations", <<>>), test_command)
    IN  [caller |-> "direct", mode |-> "resume", state |-> state,
         task |-> state.task, files |-> state.files,
         max_iterations |-> Get(state, "max_iterations", 5),
         test_command |-> test_command,
         iterations |-> iterations, total_tokens |-> SumTokens(iterations),
         prev_test_output |-> IF iterations = <<>> THEN Text("", 0)
                              ELSE iterations[Len(iterations)].test_output,
         i |-> ResumeFirst(state), result |-> None, ret |-> None]

\* a variant that refuses only when there is no checkpoint
ResumeRefuses_OnlyAbsent(state) == state = None

\* if not state or state.get("status") not in ("running",): return None
ResumeRefuses(state) == state = None \/ Get(state, "status", "none") # "running"

LoopResumeRefused ==
    /\ Quiescent
    /\ obs.runs < MaxRuns
    /\ ResumeRefuses(_load_checkpoint)
    /\ inv' = InvNone
    /\ lp' = LpNone
    /\ obs' = [Begin("resume") EXCEPT !.path = "refused"]
    /\ pc' = "returned"
    /\ UNCHANGED <<fsvars, clock>>
    /\ UNCHANGED libvars

LoopResume ==
    /\ Quiescent
    /\ obs.runs < MaxRuns
    /\ ~ResumeRefuses(_load_checkpoint)
    /\ inv' = InvNone
    /\ lp' = ResumeLocals(_load_checkpoint)
    /\ obs' = [Begin("resume") EXCEPT !.path = "loop"]
    /\ pc' = IF InRange(lp'.i, lp'.max_iterations) THEN "loop_iter" ELSE "loop_end"
    /\ UNCHANGED <<fsvars, clock>>
    /\ UNCHANGED libvars

\* CodingLoop._iterate with the provider answering
LoopIterate(response, run) ==
    /\ pc = "loop_iter"
    /\ LET r == _iterate(ws, lp.files, response, run, lp.i)
       IN  /\ ws' = r.ws
           /\ lp' = [lp EXCEPT !.result = r.result]
    /\ obs' = [obs EXCEPT !.provider = @ + 1, !.iters = @ + 1,
                          !.afterPass = @ \/ Success(lp.iterations)]
    /\ pc' = "loop_ckpt"
    /\ UNCHANGED <<inv, stateFile, convFile, cacheFiles, metaFile, historyFile,
                   loopFile, clock>>
    /\ UNCHANGED libvars

\* CodingLoop._iterate with provider.complete raising: nothing in _iterate, run,
\* resume or Agent.run catches it
LoopProviderFail ==
    /\ pc = "loop_iter"
    /\ obs' = [obs EXCEPT !.provider = @ + 1, !.iters = @ + 1,
                          !.afterPass = @ \/ Success(lp.iterations),
                          !.pfail = @ + 1, !.exc = "ProviderError"]
    /\ pc' = "raised"
    /\ UNCHANGED <<inv, lp, fsvars, clock>>
    /\ UNCHANGED libvars

\* iterations.append(result) ... self._checkpoint({...}) ... break or go on
LoopCheckpoint ==
    /\ pc = "loop_ckpt"
    /\ LET result == lp.result
           iterations == Append(lp.iterations, result)
       IN  /\ loopFile' = IterationCheckpoint(lp.task, lp.files, lp.i, lp.max_iterations,
                                              lp.test_command, iterations,
                                              result.test_passed)
           /\ lp' = [lp EXCEPT !.iterations = iterations,
                               !.total_tokens = @ + result.tokens_used,
                               !.prev_test_output =
                                   IF result.test_passed THEN @ ELSE result.test_output,
                               !.i = IF result.test_passed THEN @ ELSE @ + 1,
                               !.result = None]
           /\ pc' = AfterIteration(result.test_passed, lp.i, lp.max_iterations)
    /\ obs' = [obs EXCEPT !.wrote = @ \cup {"loop"}]
    /\ UNCHANGED <<inv, stateFile, convFile, cacheFiles, metaFile, historyFile, ws, clock>>
    /\ UNCHANGED libvars

\* after the loop of run(): summary, final checkpoint, LoopResult
LoopRunEnd ==
    /\ pc = "loop_end"
    /\ lp.mode = "run"
    /\ LET success == Success(lp.iterations)
       IN  /\ loopFile' = FinalCheckpoint(lp.task, lp.files, lp.max_iterations,
                                          lp.test_command, lp.iterations,
                                          lp.total_tokens, success)
           /\ lp' = [lp EXCEPT !.ret =
                        LoopResult(lp.task, lp.iterations, lp.total_tokens, success,
                                   _build_summary(lp.iterations, success))]
    /\ obs' = [obs EXCEPT !.wrote = @ \cup {"loop"}]
    /\ pc' = IF lp.caller = "agent" THEN "loop_history" ELSE "returned"
    /\ UNCHANGED <<inv, stateFile, convFile, cacheFiles, metaFile, historyFile, ws, clock>>
    /\ UNCHANGED libvars

\* after the loop of resume(): summary, LoopResult
LoopResumeEnd ==
    /\ pc = "loop_end"
    /\ lp.mode = "resume"
    /\ LET success == Success(lp.iterations)
       IN  lp' = [lp EXCEPT !.ret =
                     LoopResult(lp.task, lp.iterations, lp.total_tokens, success,
                                _build_summary(lp.iterations, success))]
    /\ pc' = "returned"
    /\ UNCHANGED <<inv, fsvars, clock, obs>>
    /\ UNCHANGED libvars

\* back in Agent.run: history entry and TaskResult of the loop
AgentLoopHistory ==
    /\ pc = "loop_history"
    /\ historyFile' = _write_history(inv.task, lp.ret.final_output, FALSE)
    /\ inv' = [inv EXCEPT !.result =
                 TaskResult(lp.ret.final_output, inv.task_id,
                            Get(inv.config, "model", "unknown"),
                            lp.ret.total_tokens, 0, FALSE, lp.ret.success, None)]
    /\ obs' = [obs EXCEPT !.wrote = @ \cup {"history"}]
    /\ pc' = "returned"
    /\ UNCHANGED <<lp, stateFile, convFile, cacheFiles, metaFile, loopFile, ws, clock>>
    /\ UNCHANGED libvars

----------------------------------------------------------------------------

\* Agent.run, with the loop commands of the shell (resume)
Next ==
    \/ \E task \in Tasks, files \in FileLists : AgentRun(task, files)
    \/ AgentCacheCheck
    \/ AgentHitHistory
    \/ AgentBuildContext
    \/ AgentMarkRunning
    \/ AgentFailOutsideTry
    \/ \E response \in Completions : AgentExecute(response)
    \/ AgentWriteConversation
    \/ AgentWriteCache
    \/ AgentWriteCompleted
    \/ AgentWriteHistory
    \/ AgentFail
    \/ AgentInterrupt
    \/ InterruptOutsideTry
    \/ ClearConversation
    \/ \E d \in {24, 25} : Tick(d)
    \/ AgentLoopStart
    \/ LoopResumeRefused
    \/ LoopResume
    \/ \E response \in AgentLoopCompletions, run \in AgentTestRuns : LoopIterate(response, run)
    \/ LoopProviderFail
    \/ LoopCheckpoint
    \/ LoopRunEnd
    \/ LoopResumeEnd
    \/ AgentLoopHistory

Spec == Init /\ [][Next]_vars

(* Agent.run on the single-completion path, repeated, after earlier         *)
(* invocations have left a conversation                                      *)

RepeatTasks == {"Explain how caching works", "add unit tests"}

\* user and assistant messages of one earlier invocation
Earlier(task) ==
    << [role |-> "user", content |-> TaskText(task)],
       [role |-> "assistant", content |-> Text("answer", 42)] >>

\* conversations that earlier invocations left behind: one exchange, the same
\* exchange twice, two different exchanges
PriorConversations ==
    { Earlier(t) : t \in RepeatTasks }
        \cup { Earlier(t) \o Earlier(u) : t \in RepeatTasks, u \in RepeatTasks }

\* the workspace is found with such a conversation and with the cache cleared
\* (Agent.clear_cache)
PriorConversation(conversation) ==
    /\ pc = "idle"
    /\ obs.runs = 0
    /\ convFile = Absent
    /\ convFile' = _write_conversation(conversation)
    /\ UNCHANGED <<pc, inv, lp, stateFile, cacheFiles, metaFile, historyFile,
                   loopFile, ws, clock, obs>>
    /\ UNCHANGED libvars

RepeatNext ==
    \/ \E conversation \in PriorConversations : PriorConversation(conversation)
    \/ \E task \in RepeatTasks : AgentRun(task, <<>>)
    \/ AgentCacheCheck
    \/ AgentHitHistory
    \/ AgentBuildContext
    \/ AgentMarkRunning
    \/ \E response \in Completions : AgentExecute(response)
    \/ AgentWriteConversation
    \/ AgentWriteCache
    \/ AgentWriteCompleted
    \/ AgentWriteHistory
    \/ AgentFail
    \/ ClearConversation
    \/ \E d \in {24, 25} : Tick(d)

RepeatSpec == Init /\ [][RepeatNext]_vars

\* CodingLoop.run and resume called directly, with any max_iterations
LoopNext ==
    \/ \E task \in LoopTasks, files \in LoopFileLists, n \in 0..MaxIterArg :
           LoopRun(task, files, n)
    \/ LoopResumeRefused
    \/ LoopResume
    \/ \E response \in LoopCompletions, run \in TestRuns : LoopIterate(response, run)
    \/ LoopProviderFail
    \/ InterruptOutsideTry
    \/ LoopCheckpoint
    \/ LoopRunEnd
    \/ LoopResumeEnd

LoopSpec == Init /\ [][LoopNext]_vars

----------------------------------------------------------------------------
(* CacheEngine: .geekcode/cache/responses/<task_id>.yaml and cache/meta.yaml, *)
(* the same files that Agent._read_cache and Agent._write_cache use          *)

\* the outcome of a method: the returned value, the files it leaves, and the
\* exception that leaves it ("none" if it returns)
Outcome(value, files, meta, exc) ==
    [value |-> value, files |-> files, meta |-> meta, exc |-> exc]

\* CacheEngine._load_meta
_load_meta == IF IsAbsent(metaFile) THEN EmptyDict ELSE OrEmpty(metaFile)

\* a variant that counts the hit without the tokens saved
_record_hit_HitsOnly ==
    LET meta == _load_meta
    IN  Put(meta, "hits", Get(meta, "hits", 0) + 1)

\* CacheEngine._record_hit
_record_hit ==
    LET meta == _load_meta
    IN  Put(Put(meta, "hits", Get(meta, "hits", 0) + 1),
            "tokens_saved", Get(meta, "tokens_saved", 0) + RecordHitTokens)

\* CacheEngine._record_set
_record_set ==
    LET meta == _load_meta
    IN  Put(meta, "sets", Get(meta, "sets", 0) + 1)

\* a variant that expires an entry already at the TTL
EngineExpired_AtTtl(cached_at) == clock - fromisoformat(cached_at) >= EngineTtlHours

\* datetime.utcnow() - cached_at > self.ttl
EngineExpired(cached_at) == clock - fromisoformat(cached_at) > EngineTtlHours

\* CacheEngine.get
CacheEngine_get(task_id) ==
    IF task_id \notin DOMAIN cacheFiles
    THEN Outcome(None, cacheFiles, metaFile, "none")
    ELSE LET data == cacheFiles[task_id]
             cached_at == Get(data, "cached_at", isoformat(Year2000))
         IN  IF Falsy(data) THEN Outcome(None, cacheFiles, metaFile, "none")
             ELSE IF IsScalar(data)
             THEN Outcome(None, cacheFiles, metaFile, "AttributeError")
             ELSE IF ~IsIso(cached_at)
             THEN Outcome(None, cacheFiles, metaFile, "ValueError")
             ELSE IF EngineExpired(cached_at)
             THEN Outcome(None, Remove(cacheFiles, task_id), metaFile, "none")
             ELSE IF IsScalar(metaFile)
             THEN Outcome(None, cacheFiles, metaFile, "AttributeError")
             ELSE Outcome(Get(data, "response", None), cacheFiles, _record_hit, "none")

\* a variant that leaves an existing entry as it is
CacheEngine_set_KeepFirst(task_id, response) ==
    LET data == [cached_at |-> isoformat(clock), response |-> response,
                 tokens_estimate |-> response.len \div 4]
        files == IF task_id \in DOMAIN cacheFiles THEN cacheFiles
                 ELSE Put(cacheFiles, task_id, data)
    IN  IF IsScalar(metaFile) THEN Outcome(None, files, metaFile, "AttributeError")
        ELSE Outcome(None, files, _record_set, "none")

\* CacheEngine.set: the entry is written before _record_set reads the meta file
CacheEngine_set(task_id, response) ==
    LET data == [cached_at |-> isoformat(clock), response |-> response,
                 tokens_estimate |-> response.len \div 4]
        files == Put(cacheFiles, task_id, data)
    IN  IF IsScalar(metaFile) THEN Outcome(None, files, metaFile, "AttributeError")
        ELSE Outcome(None, files, _record_set, "none")

\* if older_than_hours: of clear's argument, None or [hours |-> n]
HasCutoff(older_than) == "hours" \in DOMAIN older_than /\ older_than.hours # 0

\* the exception that reading an entry's cached_at raises in clear, or "none"
ClearRaises(data) ==
    IF IsScalar(data) THEN "AttributeError"
    ELSE IF ~IsIso(Get(OrEmpty(data), "cached_at", isoformat(Year2000))) THEN "ValueError"
    ELSE "none"

\* should_clear = cached_at < cutoff
ShouldClear(data, cutoff) ==
    fromisoformat(Get(OrEmpty(data), "cached_at", isoformat(Year2000))) < cutoff

RemoveAll(d, ks) == [x \in DOMAIN d \ ks |-> d[x]]

\* CacheEngine.clear: the outcomes it can have.  The files are visited in the
\* directory's order, so an exception at an entry leaves any of the entries
\* that were due to be cleared already deleted.
CacheEngine_clear(older_than) ==
    IF ~HasCutoff(older_than)
    THEN { Outcome(Cardinality(DOMAIN cacheFiles), EmptyDict, metaFile, "none") }
    ELSE LET cutoff == clock - older_than.hours
             bad == {k \in DOMAIN cacheFiles : ClearRaises(cacheFiles[k]) # "none"}
             due == {k \in DOMAIN cacheFiles \ bad : ShouldClear(cacheFiles[k], cutoff)}
         IN  IF bad = {}
             THEN { Outcome(Cardinality(due), RemoveAll(cacheFiles, due), metaFile, "none") }
             ELSE { Outcome(None, RemoveAll(cacheFiles, gone), metaFile,
                            ClearRaises(cacheFiles[k])) :
                        k \in bad, gone \in SUBSET due }

\* CacheEngine.stats (without the summary count and the size)
CacheEngine_stats ==
    IF IsScalar(metaFile) THEN Outcome(None, cacheFiles, metaFile, "AttributeError")
    ELSE LET meta == _load_meta
         IN  Outcome([response_cache_entries |-> Cardinality(DOMAIN cacheFiles),
                      hits |-> Get(meta, "hits", 0),
                      sets |-> Get(meta, "sets", 0),
                      tokens_saved_estimate |-> Get(meta, "tokens_saved", 0)],
                     cacheFiles, metaFile, "none")

(* Calls of the cache methods *)

\* the fingerprints and payloads of the calls
CacheKeys == { [task |-> t, files |-> <<>>, conv |-> <<>>] : t \in {"Fix auth.py", "add unit tests"} }

CacheValues == { Text("empty", 0), Text("answer", 42) }

ClearArgs == { None, [hours |-> 0], [hours |-> TtlHours] }

\* what is remembered of the call before the last one
Brief(c) ==
    [op |-> c.op, key |-> Get(c, "key", None), arg |-> Get(c, "arg", None),
     at |-> Get(c, "at", 0), exc |-> Get(c, "exc", "none")]

\* the record of a call: its outcome, and the files as they were before it
Called(op, key, arg, r) ==
    [n |-> call.n + 1, op |-> op, key |-> key, arg |-> arg, ret |-> r.value,
     exc |-> r.exc, at |-> clock,
     before |-> [cache |-> cacheFiles, meta |-> metaFile],
     prev |-> Brief(call)]

CacheCall(op, key, arg, r) ==
    /\ Quiescent
    /\ call.n < MaxCalls
    /\ cacheFiles' = r.files
    /\ metaFile' = r.meta
    /\ call' = Called(op, key, arg, r)
    /\ UNCHANGED <<agentvars, clock, store>>
    /\ UNCHANGED extvars

CacheGet(f) == CacheCall("get", f, None, CacheEngine_get(f))

CacheSet(f, v) == CacheCall("set", f, v, CacheEngine_set(f, v))

CacheClear(older_than) ==
    \E r \in CacheEngine_clear(older_than) : CacheCall("clear", None, older_than, r)

CacheStats == CacheCall("stats", None, None, CacheEngine_stats)

\* the orchestrator's own cache read and write
AgentReadCache(f) == CacheCall("read", f, None, _read_cache(f))

AgentWriteCacheFile(f, v) ==
    CacheCall("write", f, v, Outcome(None, _write_cache(f, v), metaFile, "none"))

\* something else leaves a damaged record in the cache directory
CorruptDocs ==
    { None, Scalar,
      [response |-> Text("answer", 42)],
      [cached_at |-> Malformed, response |-> Text("answer", 42)] }

CorruptEntry(f, doc) ==
    /\ Quiescent
    /\ call.n < MaxCalls
    /\ cacheFiles' = Put(cacheFiles, f, doc)
    /\ call' = [call EXCEPT !.n = @ + 1]
    /\ UNCHANGED <<agentvars, clock, store, metaFile>>
    /\ UNCHANGED extvars

CorruptMeta ==
    /\ Quiescent
    /\ call.n < MaxCalls
    /\ metaFile' = Scalar
    /\ call' = [call EXCEPT !.n = @ + 1]
    /\ UNCHANGED <<agentvars, clock, store, cacheFiles>>
    /\ UNCHANGED extvars

CacheNext ==
    \/ \E f \in CacheKeys : CacheGet(f)
    \/ \E f \in CacheKeys, v \in CacheValues : CacheSet(f, v)
    \/ \E a \in ClearArgs : CacheClear(a)
    \/ CacheStats
    \/ \E f \in CacheKeys : AgentReadCache(f)
    \/ \E f \in CacheKeys, v \in CacheValues : AgentWriteCacheFile(f, v)
    \/ \E d \in {TtlHours, TtlHours + 1} : Tick(d)

CacheSpec == Init /\ [][CacheNext]_vars

CacheFaultNext ==
    \/ \E f \in CacheKeys : CacheGet(f)
    \/ \E f \in CacheKeys, v \in CacheValues : CacheSet(f, v)
    \/ \E a \in ClearArgs : CacheClear(a)
    \/ CacheStats
    \/ \E f \in CacheKeys : AgentReadCache(f)
    \/ \E f \in CacheKeys : \E doc \in CorruptDocs : CorruptEntry(f, doc)
    \/ CorruptMeta
    \/ \E d \in {TtlHours, TtlHours + 1} : Tick(d)

CacheFaultSpec == Init /\ [][CacheFaultNext]_vars

----------------------------------------------------------------------------
(* StateEngine: .geekcode/state/<task_id>.yaml.  store maps a task id to      *)
(* [doc, mtime]: the YAML document of the file and the file's modification   *)
(* time, which grows with every write.                                       *)

\* TaskState, with the fields that the engine reads
TaskState(task_id, status, updated_at) ==
    [task_id |-> task_id, status |-> status, created_at |-> updated_at,
     updated_at |-> updated_at]

\* TaskState.to_dict
to_dict(state) ==
    [task_id |-> state.task_id, status |-> state.status,
     created_at |-> isoformat(state.created_at),
     updated_at |-> isoformat(state.updated_at)]

\* does TaskState.from_dict(data) return?  It raises TypeError for a document
\* that is not a mapping, KeyError for a missing key and ValueError for a
\* timestamp that does not parse.
Loadable(data) ==
    /\ ~IsNone(data)
    /\ ~IsScalar(data)
    /\ {"task_id", "status", "created_at", "updated_at"} \subseteq DOMAIN data
    /\ IsIso(data.created_at)
    /\ IsIso(data.updated_at)

\* TaskState.from_dict of a document it accepts
from_dict(data) ==
    [task_id |-> data.task_id, status |-> data.status,
     created_at |-> fromisoformat(data.created_at),
     updated_at |-> fromisoformat(data.updated_at)]

\* the modification time of the next file written
RECURSIVE MaxMtimeOf(_, _)
MaxMtimeOf(st, ks) ==
    IF ks = {} THEN 0
    ELSE LET k == CHOOSE x \in ks : TRUE
         IN  Max(st[k].mtime, MaxMtimeOf(st, ks \ {k}))

NextMtime(st) == MaxMtimeOf(st, DOMAIN st) + 1

\* a variant that keeps a single file for all keys
StateEngine_save_SingleFile(state) ==
    [k \in {state.task_id} |-> [doc |-> to_dict(state), mtime |-> NextMtime(store)]]

\* StateEngine.save
StateEngine_save(state) ==
    Put(store, state.task_id, [doc |-> to_dict(state), mtime |-> NextMtime(store)])

\* a variant of the order: oldest first
ByMtimeDesc_OldestFirst(st, ks) ==
    LET RECURSIVE asc(_)
        asc(rest) ==
            IF rest = {} THEN <<>>
            ELSE LET k == CHOOSE x \in rest : \A y \in rest : st[x].mtime <= st[y].mtime
                 IN  <<k>> \o asc(rest \ {k})
    IN  asc(ks)

\* state_files.sort(key=lambda p: p.stat().st_mtime, reverse=True)
ByMtimeDesc(st, ks) ==
    LET RECURSIVE desc(_)
        desc(rest) ==
            IF rest = {} THEN <<>>
            ELSE LET k == CHOOSE x \in rest : \A y \in rest : st[x].mtime >= st[y].mtime
                 IN  <<k>> \o desc(rest \ {k})
    IN  desc(ks)

\* remaining.sort(key=lambda p: p.stat().st_mtime)
ByMtimeAsc(st, ks) ==
    LET RECURSIVE asc(_)
        asc(rest) ==
            IF rest = {} THEN <<>>
            ELSE LET k == CHOOSE x \in rest : \A y \in rest : st[x].mtime <= st[y].mtime
                 IN  <<k>> \o asc(rest \ {k})
    IN  asc(ks)

\* state.status not in ("completed", "error")
NonTerminal(status) == status \notin {"completed", "error"}

\* StateEngine.load_latest
StateEngine_load_latest ==
    LET state_files == ByMtimeDesc(store, DOMAIN store)
        RECURSIVE scan(_)
        scan(files) ==
            IF files = <<>> THEN None
            ELSE LET data == store[Head(files)].doc
                 IN  IF Loadable(data) /\ NonTerminal(from_dict(data).status)
                     THEN from_dict(data)
                     ELSE scan(Tail(files))
        found == scan(state_files)
    IN  IF state_files = <<>> THEN None
        ELSE IF found # None THEN found
        ELSE IF Loadable(store[state_files[1]].doc)
        THEN from_dict(store[state_files[1]].doc)
        ELSE None

\* a variant that also lists completed states
ResumableStatuses_WithCompleted == {"running", "pending", "paused", "completed"}

\* state.status in ("running", "pending", "paused")
ResumableStatuses == {"running", "pending", "paused"}

\* the orders in which the sequences over a set can list it
RECURSIVE Orderings(_)
Orderings(S) ==
    IF S = {} THEN { <<>> }
    ELSE UNION { { <<x>> \o rest : rest \in Orderings(S \ {x}) } : x \in S }

\* StateEngine.list_resumable: the lists it can return.  The sort by updated_at
\* is stable, so states with equal updated_at stay in the directory's order.
StateEngine_list_resumable ==
    LET resumable == {k \in DOMAIN store :
                          /\ Loadable(store[k].doc)
                          /\ from_dict(store[k].doc).status \in ResumableStatuses}
    IN  { [i \in 1..Len(o) |-> from_dict(store[o[i]].doc)] :
            o \in {o \in Orderings(resumable) :
                     \A i \in 1..(Len(o) - 1) :
                         from_dict(store[o[i]].doc).updated_at
                             >= from_dict(store[o[i + 1]].doc).updated_at} }

\* StateEngine.delete
StateEngine_delete(task_id) ==
    [ret |-> task_id \in DOMAIN store, store |-> Remove(store, task_id)]

\* does the age pass of cleanup read updated_at of the document?
HasUpdatedAt(data) ==
    /\ ~IsNone(data)
    /\ ~IsScalar(data)
    /\ "updated_at" \in DOMAIN data
    /\ IsIso(data.updated_at)

\* (now - updated_at).days
AgeDays(data) == (clock - fromisoformat(data.updated_at)) \div HoursPerDay

\* remaining[:-max_count]
AllButLast(seq, max_count) ==
    IF max_count = 0 THEN <<>> ELSE SubSeq(seq, 1, Len(seq) - max_count)

\* StateEngine.cleanup: [ret, store]
StateEngine_cleanup(max_age_days, max_count) ==
    LET aged == {k \in DOMAIN store :
                     HasUpdatedAt(store[k].doc) /\ AgeDays(store[k].doc) > max_age_days}
        remaining == RemoveAll(store, aged)
        ordered == ByMtimeAsc(remaining, DOMAIN remaining)
        excess == IF Len(ordered) > max_count
                  THEN {ordered[i] : i \in 1..Len(AllButLast(ordered, max_count))}
                  ELSE {}
    IN  [ret |-> Cardinality(aged) + Cardinality(excess),
         store |-> RemoveAll(remaining, excess)]

(* Calls of the StateEngine methods *)

StateKeys == {"t1", "t2", "t3"}

\* the states that callers save
StateInputs ==
    { TaskState("t1", s, u) : s \in {"running", "completed"}, u \in {0, HoursPerDay} }
        \cup { TaskState("t2", s, u) : s \in {"paused", "error"}, u \in {0, HoursPerDay} }
        \cup { TaskState("t3", s, 0) : s \in {"pending", "completed"} }

\* damaged documents: an empty file, a scalar, a mapping without status, a
\* mapping whose updated_at does not parse
CorruptStates ==
    { None, Scalar,
      [task_id |-> "t3", created_at |-> isoformat(0), updated_at |-> isoformat(0)],
      [task_id |-> "t3", status |-> "running", created_at |-> isoformat(0),
       updated_at |-> Malformed] }

StateCall(op, arg, ret, st) ==
    /\ Quiescent
    /\ call.n < MaxCalls
    /\ store' = st
    /\ call' = [n |-> call.n + 1, op |-> op, arg |-> arg, ret |-> ret,
                exc |-> "none", at |-> clock, before |-> store]
    /\ UNCHANGED <<agentvars, cacheFiles, metaFile, clock>>
    /\ UNCHANGED extvars

StateSave(state) == StateCall("save", state, None, StateEngine_save(state))

StateDelete(task_id) ==
    LET r == StateEngine_delete(task_id)
    IN  StateCall("delete", [key |-> task_id], [found |-> r.ret], r.store)

StateLoadLatest == StateCall("load_latest", None, StateEngine_load_latest, store)

StateListResumable ==
    \E states \in StateEngine_list_resumable :
        StateCall("list_resumable", None, [states |-> states], store)

StateCleanup(max_age_days, max_count) ==
    LET r == StateEngine_cleanup(max_age_days, max_count)
    IN  StateCall("cleanup", [max_age_days |-> max_age_days, max_count |-> max_count],
                  [deleted |-> r.ret], r.store)

\* something else leaves a damaged record in the state directory
CorruptState(doc) ==
    /\ Quiescent
    /\ call.n < MaxCalls
    /\ store' = Put(store, "t3", [doc |-> doc, mtime |-> NextMtime(store)])
    /\ call' = [n |-> call.n + 1, op |-> "none"]
    /\ UNCHANGED <<agentvars, cacheFiles, metaFile, clock>>
    /\ UNCHANGED extvars

StateNext ==
    \/ \E state \in StateInputs : StateSave(state)
    \/ \E task_id \in StateKeys : StateDelete(task_id)
    \/ StateLoadLatest
    \/ StateListResumable
    \/ \E max_age_days \in {0, 1}, max_count \in {0, 1, 2} :
           StateCleanup(max_age_days, max_count)
    \/ \E doc \in CorruptStates : CorruptState(doc)
    \/ \E d \in {TtlHours, TtlHours + 1} : Tick(d)

StateSpec == Init /\ [][StateNext]_vars

(* StateEngine.save, load and delete of single keys, with writes that are   *)
(* cut short                                                                 *)

\* StateEngine.load: [ret, exc]
StateEngine_load(task_id) ==
    IF task_id \notin DOMAIN store THEN [ret |-> None, exc |-> "none"]
    ELSE LET data == store[task_id].doc
         IN  IF Loadable(data) THEN [ret |-> from_dict(data), exc |-> "none"]
             ELSE [ret |-> None, exc |-> "raised"]

\* what open(state_file, "w") and an unfinished yaml.dump leave in the file:
\* nothing, or the first keys of the mapping
Truncated(doc) == { None, [task_id |-> doc.task_id, status |-> doc.status] }

\* StateEngine.save interrupted after open(state_file, "w")
StateEngine_save_cut(state, partial) ==
    Put(store, state.task_id, [doc |-> partial, mtime |-> NextMtime(store)])

RecordCall(op, key, arg, r, st) ==
    /\ Quiescent
    /\ call.n < MaxCalls
    /\ store' = st
    /\ call' = [n |-> call.n + 1, op |-> op, key |-> key, arg |-> arg,
                ret |-> r.ret, exc |-> r.exc, before |-> store]
    /\ UNCHANGED <<agentvars, cacheFiles, metaFile, clock>>
    /\ UNCHANGED extvars

RecordSave(state) ==
    RecordCall("save", state.task_id, state, [ret |-> None, exc |-> "none"],
               StateEngine_save(state))

RecordSaveCut(state) ==
    \E partial \in Truncated(to_dict(state)) :
        RecordCall("save_cut", state.task_id, state, [ret |-> None, exc |-> "crash"],
                   StateEngine_save_cut(state, partial))

RecordLoad(task_id) ==
    RecordCall("load", task_id, None, StateEngine_load(task_id), store)

RecordDelete(task_id) ==
    LET r == StateEngine_delete(task_id)
    IN  RecordCall("delete", task_id, None,
                   [ret |-> [found |-> r.ret], exc |-> "none"], r.store)

RecordNext ==
    \/ \E state \in StateInputs : RecordSave(state)
    \/ \E state \in StateInputs : RecordSaveCut(state)
    \/ \E task_id \in StateKeys : RecordLoad(task_id)
    \/ \E task_id \in StateKeys : RecordDelete(task_id)

RecordSpec == Init /\ [][RecordNext]_vars

----------------------------------------------------------------------------
(* StateEngine: named checkpoints, .geekcode/state/checkpoints/.  A task id,  *)
(* a checkpoint name and a file name (without ".yaml") are sequences of       *)
(* characters; ckpts maps a file name to the YAML document of the file.       *)

\* f"{task_id}_{checkpoint_name}"
CheckpointFile(task_id, checkpoint_name) == task_id \o <<"_">> \o checkpoint_name

\* StateEngine.create_checkpoint: the directory afterwards
StateEngine_create_checkpoint(state, checkpoint_name) ==
    Put(ckpts, CheckpointFile(state.task_id, checkpoint_name), to_dict(state))

\* StateEngine.load_checkpoint: [ret, exc]
StateEngine_load_checkpoint(task_id, checkpoint_name) ==
    LET checkpoint_file == CheckpointFile(task_id, checkpoint_name)
    IN  IF checkpoint_file \notin DOMAIN ckpts THEN [ret |-> None, exc |-> "none"]
        ELSE IF Loadable(ckpts[checkpoint_file])
        THEN [ret |-> from_dict(ckpts[checkpoint_file]), exc |-> "none"]
        ELSE [ret |-> None, exc |-> "Exception"]

\* str.startswith: what glob(f"{prefix}*.yaml") matches
StartsWith(name, prefix) ==
    Len(name) >= Len(prefix) /\ SubSeq(name, 1, Len(prefix)) = prefix

\* StateEngine.list_checkpoints: the lists it can return, in any directory order
StateEngine_list_checkpoints(task_id) ==
    LET prefix == task_id \o <<"_">>
        matched == {f \in DOMAIN ckpts : StartsWith(f, prefix)}
    IN  { [i \in 1..Len(o) |-> SubSeq(o[i], Len(prefix) + 1, Len(o[i]))] :
              o \in Orderings(matched) }

(* Calls of the checkpoint methods *)

CkptKeys == { <<"a">>, <<"a", "_", "b">> }

CkptNames == { <<"s">>, <<"b", "_", "s">> }

CkptStates == { TaskState(k, st, 0) : k \in CkptKeys, st \in {"running", "paused"} }

\* the state last saved under each (task id, checkpoint name), as the callers
\* have saved them
Saved(c) == IF "saved" \in DOMAIN c THEN c.saved ELSE EmptyDict

CkptCall(op, arg, r, dir, saved) ==
    /\ Quiescent
    /\ call.n < MaxCalls
    /\ ckpts' = dir
    /\ call' = [n |-> call.n + 1, op |-> op, arg |-> arg, ret |-> r.ret,
                exc |-> r.exc, saved |-> saved]
    /\ UNCHANGED <<agentvars, cacheFiles, metaFile, clock, store, summaries, procs>>

CkptCreate(state, checkpoint_name) ==
    CkptCall("create_checkpoint", [state |-> state, checkpoint_name |-> checkpoint_name],
             [ret |-> None, exc |-> "none"],
             StateEngine_create_checkpoint(state, checkpoint_name),
             Put(Saved(call), <<state.task_id, checkpoint_name>>, state))

CkptLoad(task_id, checkpoint_name) ==
    CkptCall("load_checkpoint", [task_id |-> task_id, checkpoint_name |-> checkpoint_name],
             StateEngine_load_checkpoint(task_id, checkpoint_name), ckpts, Saved(call))

CkptList(task_id) ==
    \E names \in StateEngine_list_checkpoints(task_id) :
        CkptCall("list_checkpoints", [task_id |-> task_id],
                 [ret |-> [names |-> names], exc |-> "none"], ckpts, Saved(call))

CkptNext ==
    \/ \E state \in CkptStates, checkpoint_name \in CkptNames :
           CkptCreate(state, checkpoint_name)
    \/ \E task_id \in CkptKeys, checkpoint_name \in CkptNames :
           CkptLoad(task_id, checkpoint_name)
    \/ \E task_id \in CkptKeys : CkptList(task_id)

CkptSpec == Init /\ [][CkptNext]_vars

----------------------------------------------------------------------------
(* WorkflowEngine: execute and resume, over the checkpoints of StateEngine.  *)
(* A checkpoint name is the sequence of its parts, "pre_step_" or            *)
(* "post_step_" followed by the decimal digits of the step index.            *)

MaxSteps == 2        \* steps of a workflow
MaxWfCalls == 2      \* calls of WorkflowEngine.execute and resume per behaviour

WorkflowId == <<"w">>

DigitChars == <<"0", "1", "2", "3", "4", "5", "6", "7", "8", "9">>

\* str(i)
RECURSIVE Digits(_)
Digits(i) ==
    IF i < 10 THEN << DigitChars[i + 1] >>
    ELSE Digits(i \div 10) \o << DigitChars[(i % 10) + 1] >>

\* f"pre_step_{i}", f"post_step_{i}"
StepCheckpoint(kind, i) == <<kind>> \o Digits(i)

\* the order of str: digits come before letters, "post_step_" before "pre_step_"
PartRank(c) ==
    CASE c = "post_step_" -> 10
      [] c = "pre_step_" -> 11
      [] OTHER -> (CHOOSE d \in 1..10 : DigitChars[d] = c) - 1

RECURSIVE StrLess(_, _)
StrLess(a, b) ==
    IF a = <<>> THEN b # <<>>
    ELSE IF b = <<>> THEN FALSE
    ELSE IF Head(a) = Head(b) THEN StrLess(Tail(a), Tail(b))
    ELSE PartRank(Head(a)) < PartRank(Head(b))

\* sorted(checkpoints)[-1]
SortedLast(checkpoints) ==
    LET names == {checkpoints[i] : i \in 1..Len(checkpoints)}
    IN  CHOOSE x \in names : \A y \in names : y = x \/ StrLess(y, x)

\* WorkflowStep as load() builds it
WorkflowStep(name, on_error) ==
    [name |-> name, on_error |-> on_error, status |-> "pending", error |-> None,
     result |-> None]

\* WorkflowStep.to_dict: the result is not persisted
WorkflowStep_to_dict(step) ==
    [name |-> step.name, on_error |-> step.on_error, status |-> step.status,
     error |-> step.error]

\* WorkflowStep.from_dict
WorkflowStep_from_dict(data) ==
    [name |-> data.name, on_error |-> data.on_error, status |-> data.status,
     error |-> data.error, result |-> None]

\* Workflow.to_dict
Workflow_to_dict(workflow) ==
    [id |-> workflow.id, status |-> workflow.status,
     current_step |-> workflow.current_step,
     steps |-> [i \in 1..Len(workflow.steps) |-> WorkflowStep_to_dict(workflow.steps[i])]]

\* WorkflowEngine._workflow_from_state
_workflow_from_state(data) ==
    [id |-> data.id, status |-> data.status, current_step |-> data.current_step,
     steps |-> [i \in 1..Len(data.steps) |-> WorkflowStep_from_dict(data.steps[i])]]

\* WorkflowEngine._create_checkpoint: the checkpoint directory afterwards
_create_checkpoint(dir, workflow, checkpoint_name) ==
    Put(dir, CheckpointFile(workflow.id, checkpoint_name),
        [task_id |-> workflow.id, status |-> workflow.status,
         current_step |-> workflow.current_step,
         context |-> [workflow |-> Workflow_to_dict(workflow)]])

\* the loop of WorkflowEngine.execute from step i (0-indexed).  s holds the
\* workflow, the checkpoint directory, the indices of the steps whose handler
\* was called and the name of the checkpoint written last; outcomes[i + 1]
\* tells whether the handler of step i returns or raises.
RECURSIVE ExecuteFrom(_, _, _)
ExecuteFrom(s, i, outcomes) ==
    IF i >= Len(s.wf.steps) THEN s
    ELSE LET w0 == [s.wf EXCEPT !.current_step = i]
             step == w0.steps[i + 1]
         IN  IF step.status = "completed"
             THEN ExecuteFrom([s EXCEPT !.wf = w0], i + 1, outcomes)
             ELSE LET w1 == [w0 EXCEPT !.steps[i + 1].status = "running"]
                      pre == StepCheckpoint("pre_step_", i)
                      post == StepCheckpoint("post_step_", i)
                      d1 == _create_checkpoint(s.dir, w1, pre)
                      ran == Append(s.ran, i)
                  IN  IF outcomes[i + 1] = "ok"
                      THEN LET w2 == [w1 EXCEPT !.steps[i + 1].status = "completed",
                                                !.steps[i + 1].result = Scalar]
                           IN  ExecuteFrom([wf |-> w2,
                                            dir |-> _create_checkpoint(d1, w2, post),
                                            ran |-> ran, latest |-> post],
                                           i + 1, outcomes)
                      ELSE LET w2 == [w1 EXCEPT !.steps[i + 1].status = "failed",
                                                !.steps[i + 1].error = Err("handler")]
                               failed == [wf |-> w2, dir |-> d1, ran |-> ran,
                                          latest |-> pre]
                           IN  CASE step.on_error = "stop" ->
                                        [failed EXCEPT !.wf.status = "failed"]
                                 [] step.on_error = "skip" ->
                                        ExecuteFrom(
                                            [failed EXCEPT
                                                 !.wf.steps[i + 1].status = "skipped"],
                                            i + 1, outcomes)
                                 [] OTHER -> ExecuteFrom(failed, i + 1, outcomes)

\* WorkflowEngine.execute: [wf, dir, ran, latest]
WorkflowEngine_execute(workflow, outcomes, resume_from, dir, latest) ==
    LET start_step == IF resume_from = None THEN 0 ELSE resume_from.step
        s == ExecuteFrom([wf |-> [workflow EXCEPT !.status = "running"], dir |-> dir,
                          ran |-> <<>>, latest |-> latest],
                         start_step, outcomes)
        steps == s.wf.steps
        status ==
            IF \A j \in 1..Len(steps) : steps[j].status = "completed" THEN "completed"
            ELSE IF \E j \in 1..Len(steps) : steps[j].status = "failed" THEN "failed"
            ELSE s.wf.status
    IN  [s EXCEPT !.wf.status = status]

\* WorkflowEngine.resume, given the list that list_checkpoints returned
WorkflowEngine_resume(workflow_id, checkpoints) ==
    IF checkpoints = <<>> THEN None
    ELSE LET latest == SortedLast(checkpoints)
             state == ckpts[CheckpointFile(workflow_id, latest)]
         IN  _workflow_from_state(state.context.workflow)

(* Calls of execute and resume *)

OnError == {"stop", "skip", "retry"}

\* the workflows that load() returns
Workflows ==
    { [id |-> WorkflowId, status |-> "pending", current_step |-> 0,
       steps |-> [i \in 1..n |-> WorkflowStep(IF i = 1 THEN "s1" ELSE "s2", policy[i])]] :
          n \in 0..MaxSteps, policy \in [1..MaxSteps -> OnError] }

Outcomes == [1..MaxSteps -> {"ok", "raise"}]

\* the name of the checkpoint written last, <<>> before the first
Latest(c) == IF "latest" \in DOMAIN c THEN c.latest ELSE <<>>

WfCall(c, dir) ==
    /\ Quiescent
    /\ call.n < MaxWfCalls
    /\ ckpts' = dir
    /\ call' = [c EXCEPT !.n = call.n + 1]
    /\ UNCHANGED <<agentvars, cacheFiles, metaFile, clock, store, summaries, procs>>

WfExecute(workflow, outcomes, resume_from) ==
    LET r == WorkflowEngine_execute(workflow, outcomes, resume_from, ckpts, Latest(call))
    IN  WfCall([n |-> 0, op |-> "execute",
                arg |-> [workflow |-> workflow, outcomes |-> outcomes,
                         resume_from |-> resume_from],
                ret |-> r.wf, ran |-> r.ran, latest |-> r.latest],
               r.dir)

WfResume(workflow_id) ==
    \E checkpoints \in StateEngine_list_checkpoints(workflow_id) :
        WfCall([n |-> 0, op |-> "resume", arg |-> [workflow_id |-> workflow_id],
                ret |-> WorkflowEngine_resume(workflow_id, checkpoints),
                ran |-> <<>>, latest |-> Latest(call)],
               ckpts)

WfNext ==
    \/ \E workflow \in Workflows, outcomes \in Outcomes,
          resume_from \in {None, [step |-> 1]} :
           WfExecute(workflow, outcomes, resume_from)
    \/ WfResume(WorkflowId)

WfSpec == Init /\ [][WfNext]_vars

----------------------------------------------------------------------------
(* Agent._generate_task_id applied to chosen inputs, between changes of the  *)
(* workspace files and of the persisted records                              *)

FpTasks == {"Fix auth.py", "Explain how caching works"}

FpFileLists ==
    { <<>>, <<"auth.py">>, <<"auth.py", "notes.md">>, <<"notes.md", "auth.py">>,
      <<"auth.py", "auth.py">> }

Message(role, id) == [role |-> role, content |-> Text(id, 10)]

\* conversations: empty, two exchanges, and a longer one with the same tail
FpConversations ==
    LET tail == << Message("user", "q1"), Message("assistant", "a1"),
                   Message("user", "q2"), Message("assistant", "a2") >>
    IN  { <<>>, tail, <<Message("assistant", "a0")>> \o tail }

\* the modification times of the workspace files, 0 for a missing file
Mtimes == [p \in Paths |-> IF Exists(p) THEN ws[p].mtime ELSE 0]

\* what is remembered of the fingerprint call before the last one
FpBrief(c) ==
    IF c.op = "fingerprint"
    THEN [op |-> c.op, task |-> c.task, files |-> c.files,
          conversation |-> c.conversation, mtimes |-> c.mtimes, id |-> c.id]
    ELSE [op |-> "none"]

Fingerprint(task, files, conversation) ==
    /\ Quiescent
    /\ call.n < MaxFpCalls
    /\ call' = [n |-> call.n + 1, op |-> "fingerprint", task |-> task,
                files |-> files, conversation |-> conversation, mtimes |-> Mtimes,
                id |-> _generate_task_id(task, files, conversation),
                prev |-> FpBrief(call)]
    /\ UNCHANGED <<agentvars, cacheFiles, metaFile, clock, store>>
    /\ UNCHANGED extvars

\* a workspace file is written: created, or its modification time moves on
Touch(p) ==
    /\ Quiescent
    /\ Mtimes[p] < MaxMtime
    /\ ws' = [ws EXCEPT ![p] = IF Exists(p) THEN [@ EXCEPT !.mtime = @ + 1]
                               ELSE File(<<"a">>, 1)]
    /\ UNCHANGED <<pc, inv, lp, obs, stateFile, convFile, historyFile, loopFile,
                   cacheFiles, metaFile, clock, store, call>>
    /\ UNCHANGED extvars

\* other persisted records change between two fingerprint calls
OtherStateChanges ==
    /\ Quiescent
    /\ stateFile = Absent
    /\ stateFile' = [status |-> "completed"]
    /\ convFile' = <<Message("user", "q9")>>
    /\ cacheFiles' = Put(cacheFiles, [task |-> "x", files |-> <<>>, conv |-> <<>>],
                         [cached_at |-> isoformat(clock), response |-> Text("answer", 42)])
    /\ metaFile' = _increment_cache_hits(metaFile)
    /\ UNCHANGED <<pc, inv, lp, obs, historyFile, loopFile, ws, clock, store, call>>
    /\ UNCHANGED extvars

FpNext ==
    \/ \E task \in FpTasks, files \in FpFileLists, conversation \in FpConversations :
           Fingerprint(task, files, conversation)
    \/ \E p \in {"auth.py", "notes.md"} : Touch(p)
    \/ OtherStateChanges

FpSpec == Init /\ [][FpNext]_vars

----------------------------------------------------------------------------
(* CacheEngine: the file summaries of .geekcode/cache/summaries, one file    *)
(* per source path, applied to chosen paths between changes of the sources   *)

\* source.stat().st_mtime if source.exists() else 0
SourceMtime(p) == IF Exists(p) THEN ws[p].mtime ELSE 0

\* CacheEngine.set_summary: the directory afterwards
CacheEngine_set_summary(file_path, summary) ==
    Put(summaries, file_path,
        [source_path |-> file_path, source_mtime |-> SourceMtime(file_path),
         cached_at |-> isoformat(clock), summary |-> summary])

\* CacheEngine.get_summary: what is returned and the directory afterwards
CacheEngine_get_summary(file_path) ==
    IF file_path \notin DOMAIN summaries
    THEN [ret |-> None, dir |-> summaries]
    ELSE LET data == summaries[file_path]
         IN  IF Exists(file_path) /\ ws[file_path].mtime > data.source_mtime
             THEN [ret |-> None,
                   dir |-> [x \in DOMAIN summaries \ {file_path} |-> summaries[x]]]
             ELSE [ret |-> [summary |-> data.summary], dir |-> summaries]

SummaryPaths == {"auth.py", "notes.md"}

SummaryTexts == {"s1", "s2"}

SummaryCall(c, dir) ==
    /\ Quiescent
    /\ call.n < MaxCalls
    /\ summaries' = dir
    /\ call' = [c EXCEPT !.n = call.n + 1]
    /\ UNCHANGED <<agentvars, cacheFiles, metaFile, clock, store, ckpts, procs>>

SummarySet(file_path, summary) ==
    SummaryCall([n |-> 0, op |-> "set_summary", file_path |-> file_path,
                 summary |-> summary],
                CacheEngine_set_summary(file_path, summary))

\* the call record keeps the entry found and the source's modification time
\* at the read
SummaryGet(file_path) ==
    LET r == CacheEngine_get_summary(file_path)
    IN  SummaryCall([n |-> 0, op |-> "get_summary", file_path |-> file_path,
                     entry |-> Get(summaries, file_path, Absent),
                     mtime |-> SourceMtime(file_path), ret |-> r.ret],
                    r.dir)

\* a source file is deleted
SourceDelete(p) ==
    /\ Quiescent
    /\ Exists(p)
    /\ ws' = [ws EXCEPT ![p] = Absent]
    /\ UNCHANGED <<pc, inv, lp, obs, stateFile, convFile, historyFile, loopFile,
                   cacheFiles, metaFile, clock, store, call>>
    /\ UNCHANGED extvars

\* an older version of a source file is put back with its modification time
\* (restored from an archive, copied with timestamps preserved)
SourceRestore(p) ==
    /\ Quiescent
    /\ Exists(p)
    /\ ws[p].mtime > 1
    /\ ws' = [ws EXCEPT ![p].mtime = @ - 1]
    /\ UNCHANGED <<pc, inv, lp, obs, stateFile, convFile, historyFile, loopFile,
                   cacheFiles, metaFile, clock, store, call>>
    /\ UNCHANGED extvars

SummaryNext ==
    \/ \E file_path \in SummaryPaths, summary \in SummaryTexts :
           SummarySet(file_path, summary)
    \/ \E file_path \in SummaryPaths : SummaryGet(file_path)
    \/ \E p \in SummaryPaths : Touch(p)
    \/ \E p \in SummaryPaths : SourceDelete(p)
    \/ \E p \in SummaryPaths : SourceRestore(p)

SummarySpec == Init /\ [][SummaryNext]_vars

----------------------------------------------------------------------------
(* Agent.run: the conversation step, over many invocations in a row          *)

MaxExchanges == 12   \* invocations that reach the conversation write

ExchangeTasks == {"Fix auth.py", "add unit tests"}

Exchange(task, response) ==
    << [role |-> "user", content |-> TaskText(task)],
       [role |-> "assistant", content |-> response.content] >>

\* conversation = self._read_conversation() ... conversation.append(user),
\* conversation.append(assistant), self._write_conversation(conversation)
ConvExchange(task, response) ==
    /\ Quiescent
    /\ call.n < MaxExchanges
    /\ LET conversation == _read_conversation \o Exchange(task, response)
       IN  /\ convFile' = _write_conversation(conversation)
           /\ call' = [n |-> call.n + 1, op |-> "exchange", task |-> task,
                       response |-> response, before |-> _read_conversation]
    /\ UNCHANGED <<pc, inv, lp, obs, stateFile, historyFile, loopFile, ws,
                   cacheFiles, metaFile, clock, store>>
    /\ UNCHANGED extvars

ConvNext ==
    \/ \E task \in ExchangeTasks :
           ConvExchange(task, [content |-> Text("answer", 42)])
    \/ ClearConversation

ConvSpec == Init /\ [][ConvNext]_vars

\* the last two calls were fingerprint calls
TwoFingerprints == call.op = "fingerprint" /\ call.prev.op = "fingerprint"

\* the set of paths of a file list
PathSet(files) == {files[i] : i \in 1..Len(files)}

\* the referenced files that exist had the same modification times at both calls
SameMtimes ==
    \A p \in PathSet(call.files) \cup PathSet(call.prev.files) :
        call.mtimes[p] = call.prev.mtimes[p]

SameTail == LastN(call.conversation, 4) = LastN(call.prev.conversation, 4)

\* the listings of a and b are the same up to order: same paths, each as often
SameListing(a, b) ==
    /\ Len(a) = Len(b)
    /\ \A p \in PathSet(a) \cup PathSet(b) :
           Cardinality({i \in 1..Len(a) : a[i] = p}) =
           Cardinality({i \in 1..Len(b) : b[i] = p})

\* C16 as stated: the fingerprint is a function of the task, the set of
\* referenced paths with their modification times and the last 4 messages.
C16_FunctionOfPathSet ==
    (TwoFingerprints /\ call.task = call.prev.task
        /\ PathSet(call.files) = PathSet(call.prev.files) /\ SameMtimes /\ SameTail)
        => call.id = call.prev.id

\* C16 amended: the fingerprint is a function of the task, the listing of the
\* referenced paths up to order (a path listed twice counts twice) with the
\* modification times of those that exist, and the last 4 messages; it does
\* not depend on other persisted state, and it changes when the modification
\* time of a referenced existing file changes.
C16_FunctionOfListing ==
    /\ (TwoFingerprints /\ call.task = call.prev.task
           /\ SameListing(call.files, call.prev.files) /\ SameMtimes /\ SameTail)
           => call.id = call.prev.id
    /\ (TwoFingerprints /\ call.task = call.prev.task /\ call.files = call.prev.files
           /\ call.conversation = call.prev.conversation
           /\ \E p \in PathSet(call.files) :
                  call.prev.mtimes[p] > 0 /\ call.mtimes[p] # call.prev.mtimes[p])
           => call.id # call.prev.id

\* two calls with the two files listed in opposite orders and conversations that
\* differ before their last 4 messages, after other records changed
C16_Witness ==
    /\ TwoFingerprints
    /\ call.files = <<"notes.md", "auth.py">>
    /\ call.prev.files = <<"auth.py", "notes.md">>
    /\ call.mtimes["notes.md"] > 0
    /\ SameMtimes
    /\ call.task = call.prev.task
    /\ call.conversation # call.prev.conversation
    /\ SameTail
    /\ stateFile # Absent
    /\ call.id = call.prev.id

----------------------------------------------------------------------------
(* CodingLoop._apply_edits applied to chosen edits of the workspace files *)

EditFiles == {"auth.py", "notes.md"}

EditOlds == { <<"a">>, <<"b", "a">>, <<"c">>, <<>> }

EditNews == { <<"x">>, <<>> }

EditInputs ==
    { Edit(EditBlock(f, old, new)) : f \in EditFiles, old \in EditOlds, new \in EditNews }
        \cup { Edit(CreateBlock("notes.md", <<"a", "c", "a", "c">>)) }

ApplyEdit(edit) ==
    /\ Quiescent
    /\ call.n < MaxCalls
    /\ LET r == _apply_edits(ws, <<edit>>)
       IN  /\ ws' = r.ws
           /\ call' = [n |-> call.n + 1, op |-> "apply", edit |-> edit,
                       applied |-> r.applied, before |-> ws]
    /\ UNCHANGED <<pc, inv, lp, obs, stateFile, convFile, historyFile, loopFile,
                   cacheFiles, metaFile, clock, store>>
    /\ UNCHANGED extvars

EditNext == \E edit \in EditInputs : ApplyEdit(edit)

EditSpec == Init /\ [][EditNext]_vars

(* A response of the model inside the loop: CodingLoop._parse_edits followed  *)
(* by CodingLoop._apply_edits, steps 4 and 5 of CodingLoop._iterate           *)

ResponseBlocks ==
    { EditBlock("auth.py", <<"a">>, <<"x">>),
      EditBlock("auth.py", <<"c">>, <<"x">>),
      EditBlock("notes.md", <<"x">>, <<"y">>),
      CreateBlock("notes.md", <<"x">>) }

\* the response texts: up to MaxBlocks blocks, in any order
MaxBlocks == 2

Responses ==
    UNION { [1..n -> ResponseBlocks] : n \in 0..MaxBlocks }

\* the workspace as each pass of the loop of _apply_edits finds it, and as the
\* last pass leaves it
RECURSIVE Trail(_, _)
Trail(w, edits) ==
    IF edits = <<>> THEN <<w>>
    ELSE <<w>> \o Trail(ApplyOne(w, Head(edits)).ws, Tail(edits))

ApplyResponse(blocks) ==
    /\ Quiescent
    /\ call.n < MaxCalls
    /\ LET edits == _parse_edits(blocks)
           r == _apply_edits(ws, edits)
       IN  /\ ws' = r.ws
           /\ call' = [n |-> call.n + 1, op |-> "response", blocks |-> blocks,
                       edits |-> edits, applied |-> r.applied,
                       trail |-> Trail(ws, edits)]
    /\ UNCHANGED <<pc, inv, lp, obs, stateFile, convFile, historyFile, loopFile,
                   cacheFiles, metaFile, clock, store>>
    /\ UNCHANGED extvars

ResponseNext == \E blocks \in Responses : ApplyResponse(blocks)

ResponseSpec == Init /\ [][ResponseNext]_vars

\* the last call applied an Edit that is not a create
AppliedAnEdit == call.op = "apply" /\ ~call.edit.is_create

\* old starts at position i of content
StartsAt(old, content, i) ==
    /\ i >= 1
    /\ i + Len(old) - 1 <= Len(content)
    /\ \A k \in 1..Len(old) : content[i + k - 1] = old[k]

\* after is before with the occurrence of old at i replaced by new
ReplacedAt(before, after, old, new, i) ==
    /\ Len(after) = Len(before) - Len(old) + Len(new)
    /\ \A k \in 1..(i - 1) : after[k] = before[k]
    /\ \A k \in 1..Len(new) : after[i + k - 1] = new[k]
    /\ \A k \in (i + Len(old))..Len(before) : after[k - Len(old) + Len(new)] = before[k]

\* C17: an Edit of an existing file that contains old_content replaces its first
\* occurrence by new_content and leaves the rest of the file and every other
\* file as they were; an Edit of a missing file reports applied = false with
\* "file not found" and creates nothing.
C17_EditReplacesFirstOccurrence ==
    AppliedAnEdit =>
        LET e == call.edit
            f == e.file_path
            existed == call.before[f] # Absent
            found == {i \in 1..(Len(call.before[f].content) + 1) :
                          StartsAt(e.old_content, call.before[f].content, i)}
        IN  /\ \A p \in Paths \ {f} : ws[p] = call.before[p]
            /\ Len(call.applied) = 1
            /\ ~existed =>
                   /\ ~call.applied[1].applied
                   /\ call.applied[1].error = "file not found"
                   /\ ws[f] = Absent
            /\ (existed /\ found # {}) =>
                   /\ call.applied[1].applied
                   /\ \E i \in found :
                          /\ \A j \in found : i <= j
                          /\ ReplacedAt(call.before[f].content, ws[f].content,
                                        e.old_content, e.new_content, i)

\* an Edit replaced the first of two occurrences in a file
C17_Witness ==
    /\ AppliedAnEdit
    /\ call.before[call.edit.file_path] # Absent
    /\ call.edit.old_content = <<"a">>
    /\ call.edit.new_content = <<"x">>
    /\ call.before[call.edit.file_path].content = <<"a", "b", "a">>
    /\ ws[call.edit.file_path].content = <<"x", "b", "a">>

----------------------------------------------------------------------------
(* Two simultaneous calls of Agent.run on the single-completion path.  Each   *)
(* call keeps its own locals (procs[p]); the files are shared, and the calls  *)
(* interleave between one file operation or provider call and the next.       *)

RaceTasks == {"Explain how caching works", "add unit tests"}

\* the number of cache entries written so far by the simultaneous calls
CacheWrites ==
    LET seq(p) == IF procs[p].pc = "idle" THEN 0 ELSE procs[p].cache_seq
    IN  Max(seq(1), seq(2))

At(p, where) == Quiescent /\ procs[p].pc = where

Others == <<pc, inv, lp, obs, clock, ws, loopFile, store, call, ckpts, summaries>>

\* READ PHASE and task id
RaceRun(p, task) ==
    /\ At(p, "idle")
    /\ procs' = [procs EXCEPT ![p] =
                   [pc |-> "cache_check", task |-> task, state |-> _read_state,
                    conversation |-> _read_conversation,
                    task_id |-> _generate_task_id(task, <<>>, _read_conversation),
                    cached |-> None, response |-> None, cache_seq |-> 0,
                    error |-> None]]
    /\ UNCHANGED <<stateFile, convFile, cacheFiles, metaFile, historyFile, Others>>

\* CACHE CHECK
RaceCacheCheck(p) ==
    /\ At(p, "cache_check")
    /\ LET r == _read_cache(procs[p].task_id)
       IN  /\ cacheFiles' = r.files
           /\ metaFile' = r.meta
           /\ procs' = [procs EXCEPT ![p].cached = r.value,
                                     ![p].pc = IF Truthy(r.value) THEN "hit_history"
                                               ELSE "mark_running"]
    /\ UNCHANGED <<stateFile, convFile, historyFile, Others>>

RaceHitHistory(p) ==
    /\ At(p, "hit_history")
    /\ historyFile' = _write_history(procs[p].task, procs[p].cached, TRUE)
    /\ procs' = [procs EXCEPT ![p].pc = "returned"]
    /\ UNCHANGED <<stateFile, convFile, cacheFiles, metaFile, Others>>

\* CONTEXT PHASE (no files) and CHECKPOINT
RaceMarkRunning(p) ==
    /\ At(p, "mark_running")
    /\ LET state == RunningState(procs[p].state, procs[p].task, procs[p].task_id)
       IN  /\ stateFile' = state
           /\ procs' = [procs EXCEPT ![p].state = state, ![p].pc = "execute"]
    /\ UNCHANGED <<convFile, cacheFiles, metaFile, historyFile, Others>>

\* EXECUTE PHASE
RaceExecute(p, response) ==
    /\ At(p, "execute")
    /\ procs' = [procs EXCEPT ![p].response = response, ![p].pc = "write_conv"]
    /\ UNCHANGED <<stateFile, convFile, cacheFiles, metaFile, historyFile, Others>>

\* the provider fails: except Exception
RaceFail(p) ==
    /\ At(p, "execute")
    /\ LET state == ErrorState(procs[p].state, Err("execute"))
       IN  /\ stateFile' = state
           /\ procs' = [procs EXCEPT ![p].state = state, ![p].pc = "returned",
                                     ![p].error = Err("execute")]
    /\ UNCHANGED <<convFile, cacheFiles, metaFile, historyFile, Others>>

RaceWriteConversation(p) ==
    /\ At(p, "write_conv")
    /\ LET conversation ==
               procs[p].conversation
               \o << [role |-> "user", content |-> TaskText(procs[p].task)],
                     [role |-> "assistant", content |-> procs[p].response.content] >>
       IN  /\ convFile' = _write_conversation(conversation)
           /\ procs' = [procs EXCEPT ![p].conversation = conversation,
                                     ![p].pc = "write_cache"]
    /\ UNCHANGED <<stateFile, cacheFiles, metaFile, historyFile, Others>>

RaceWriteCache(p) ==
    /\ At(p, "write_cache")
    /\ cacheFiles' = _write_cache(procs[p].task_id, procs[p].response.content)
    /\ procs' = [procs EXCEPT ![p].cache_seq = CacheWrites + 1, ![p].pc = "write_state"]
    /\ UNCHANGED <<stateFile, convFile, metaFile, historyFile, Others>>

RaceWriteCompleted(p) ==
    /\ At(p, "write_state")
    /\ LET state == CompletedState(procs[p].state, procs[p].response, procs[p].task_id)
       IN  /\ stateFile' = state
           /\ procs' = [procs EXCEPT ![p].state = state, ![p].pc = "write_history"]
    /\ UNCHANGED <<convFile, cacheFiles, metaFile, historyFile, Others>>

RaceWriteHistory(p) ==
    /\ At(p, "write_history")
    /\ historyFile' = _write_history(procs[p].task, procs[p].response.content, FALSE)
    /\ procs' = [procs EXCEPT ![p].pc = "returned"]
    /\ UNCHANGED <<stateFile, convFile, cacheFiles, metaFile, Others>>

RaceNext ==
    \E p \in Procs :
        \/ \E task \in RaceTasks : RaceRun(p, task)
        \/ RaceCacheCheck(p)
        \/ RaceHitHistory(p)
        \/ RaceMarkRunning(p)
        \/ \E response \in Completions : RaceExecute(p, response)
        \/ RaceFail(p)
        \/ RaceWriteConversation(p)
        \/ RaceWriteCache(p)
        \/ RaceWriteCompleted(p)
        \/ RaceWriteHistory(p)

RaceSpec == Init /\ [][RaceNext]_vars

(* The same two calls with the counter of cache/meta.yaml and the daily      *)
(* history file updated as the code updates them: the file is read, the      *)
(* value is changed in memory, the file is written, with no lock between.    *)

\* an entry that an earlier invocation left in the cache, the conversation
\* having been cleared since
PriorCache(task) ==
    /\ Quiescent
    /\ \A p \in Procs : procs[p].pc = "idle"
    /\ cacheFiles = EmptyDict
    /\ cacheFiles' = _write_cache(_generate_task_id(task, <<>>, <<>>), Text("answer", 42))
    /\ UNCHANGED <<stateFile, convFile, metaFile, historyFile, procs, Others>>

LostRun(p, task) ==
    /\ At(p, "idle")
    /\ procs' = [procs EXCEPT ![p] =
                   [pc |-> "cache_check", task |-> task, state |-> _read_state,
                    conversation |-> _read_conversation,
                    task_id |-> _generate_task_id(task, <<>>, _read_conversation),
                    cached |-> None, response |-> None, cache_seq |-> 0,
                    error |-> None, meta |-> Absent, history |-> <<>>,
                    counted |-> FALSE, hit |-> FALSE]]
    /\ UNCHANGED <<stateFile, convFile, cacheFiles, metaFile, historyFile, Others>>

\* Agent._read_cache up to the TTL check
LostCacheLookup(p) ==
    /\ At(p, "cache_check")
    /\ LET id == procs[p].task_id
       IN  IF id \notin DOMAIN cacheFiles
           THEN /\ procs' = [procs EXCEPT ![p].pc = "mark_running"]
                /\ cacheFiles' = cacheFiles
           ELSE IF Expired(cacheFiles[id])
           THEN /\ procs' = [procs EXCEPT ![p].pc = "mark_running"]
                /\ cacheFiles' = Remove(cacheFiles, id)
           ELSE /\ procs' = [procs EXCEPT ![p].pc = "meta_read",
                                          ![p].cached = cacheFiles[id].response]
                /\ cacheFiles' = cacheFiles
    /\ UNCHANGED <<stateFile, convFile, metaFile, historyFile, Others>>

\* Agent._increment_cache_hits: meta = yaml.safe_load(f) or {}
LostMetaRead(p) ==
    /\ At(p, "meta_read")
    /\ procs' = [procs EXCEPT ![p].meta = metaFile, ![p].pc = "meta_write"]
    /\ UNCHANGED <<stateFile, convFile, cacheFiles, metaFile, historyFile, Others>>

\* a variant that reads the file again when it writes
WriteBackHits_Reread(p) == _increment_cache_hits(metaFile)

\* meta["hits"] = meta.get("hits", 0) + 1 ... yaml.dump(meta, f)
WriteBackHits(p) == _increment_cache_hits(procs[p].meta)

\* ... and `if cached:` of Agent.run
LostMetaWrite(p) ==
    /\ At(p, "meta_write")
    /\ metaFile' = WriteBackHits(p)
    /\ procs' = [procs EXCEPT ![p].counted = TRUE,
                              ![p].pc = IF Truthy(procs[p].cached) THEN "hit_history"
                                        ELSE "mark_running"]
    /\ UNCHANGED <<stateFile, convFile, cacheFiles, historyFile, Others>>

\* Agent._write_history: history = yaml.safe_load(f) or []
LostHistoryRead(p) ==
    /\ Quiescent
    /\ procs[p].pc \in {"hit_history", "write_history"}
    /\ procs' = [procs EXCEPT ![p].history = Get(historyFile, Today, <<>>),
                              ![p].hit = (procs[p].pc = "hit_history"),
                              ![p].pc = "history_write"]
    /\ UNCHANGED <<stateFile, convFile, cacheFiles, metaFile, historyFile, Others>>

\* history.append({...}) ... yaml.dump(history, f)
HistoryEntry(task, response, cached) ==
    [timestamp |-> clock, task |-> Take(TaskText(task), PreviewLen),
     response_preview |-> Take(response, PreviewLen), cached |-> cached]

LostHistoryWrite(p) ==
    /\ At(p, "history_write")
    /\ LET response == IF procs[p].hit THEN procs[p].cached
                       ELSE procs[p].response.content
       IN  historyFile' =
               Put(historyFile, Today,
                   Append(procs[p].history,
                          HistoryEntry(procs[p].task, response, procs[p].hit)))
    /\ procs' = [procs EXCEPT ![p].pc = "returned"]
    /\ UNCHANGED <<stateFile, convFile, cacheFiles, metaFile, Others>>

LostNext ==
    \/ \E task \in RaceTasks : PriorCache(task)
    \/ \E p \in Procs :
        \/ \E task \in RaceTasks : LostRun(p, task)
        \/ LostCacheLookup(p)
        \/ LostMetaRead(p)
        \/ LostMetaWrite(p)
        \/ LostHistoryRead(p)
        \/ LostHistoryWrite(p)
        \/ RaceMarkRunning(p)
        \/ \E response \in Completions : RaceExecute(p, response)
        \/ RaceFail(p)
        \/ RaceWriteConversation(p)
        \/ RaceWriteCache(p)
        \/ RaceWriteCompleted(p)

LostSpec == Init /\ [][LostNext]_vars

--------------------------------------------------------------------------------------------------------------------------------------------------------------------------------------------------------------------------
(* Properties of the persisted conversation                                  *)

\* C32: the persisted conversation never holds more than 20 entries: every
\* write keeps the most recent 20 messages of the conversation read plus the
\* new exchange, in their order, ending with the (user task, assistant
\* response) exchange of the invocation.
C32_ConversationBounded ==
    convFile # Absent =>
        /\ Len(convFile) <= 20
        /\ call.op = "exchange" =>
               LET full == call.before \o Exchange(call.task, call.response)
                   drop == Len(full) - Len(convFile)
               IN  /\ Len(convFile) = Min(20, Len(full))
                   /\ \A i \in 1..Len(convFile) : convFile[i] = full[drop + i]
                   /\ SubSeq(convFile, Len(convFile) - 1, Len(convFile))
                          = Exchange(call.task, call.response)

\* a write found 20 messages, appended two and dropped the oldest exchange
C32_Witness ==
    /\ convFile # Absent
    /\ call.op = "exchange"
    /\ Len(call.before) = 20
    /\ Len(convFile) = 20
    /\ convFile[1] = call.before[3]
    /\ call.before[1] # call.before[3]

-----
(* Properties of the file summaries                                           *)

\* C28: get_summary(path) returns the stored summary only while the source's
\* modification time at the read equals the one stored by set_summary (0 for
\* a missing source); whenever the two differ, later or earlier, the source
\* deleted or created since, the entry is removed and None is returned.
C28_SummaryInvalidatedOnChange ==
    (call.op = "get_summary" /\ call.entry # Absent) =>
        IF call.mtime = call.entry.source_mtime
        THEN /\ call.ret = [summary |-> call.entry.summary]
             /\ Get(summaries, call.file_path, Absent) = call.entry
        ELSE /\ call.ret = None
             /\ call.file_path \notin DOMAIN summaries

-----
(* Properties of the response cache *)

ReadOps == {"get", "read"}

WriteOps == {"set", "write"}

\* the last call was a cache read of an entry that existed before it
ReadOfEntry == call.op \in ReadOps /\ call.key \in DOMAIN call.before.cache

\* the age, at the last call, of the entry it read
AgeAtRead == call.at - call.before.cache[call.key].cached_at.iso

\* C12: a read right after a set of the same fingerprint returns the value set;
\* a read of an entry older than 24 hours returns nothing and removes the entry;
\* an absent entry stays absent until it is set again.
C12_RoundTripAndExpiry ==
    /\ (call.op \in ReadOps /\ call.prev.op \in WriteOps /\ call.prev.key = call.key
            /\ call.prev.at = call.at) => call.ret = call.prev.arg
    /\ (ReadOfEntry /\ AgeAtRead <= 24) => call.ret = call.before.cache[call.key].response
    /\ (ReadOfEntry /\ AgeAtRead > 24) =>
           (call.ret = None /\ call.key \notin DOMAIN cacheFiles)
    /\ (call.op \in ReadOps /\ call.key \notin DOMAIN call.before.cache) =>
           (call.ret = None /\ call.key \notin DOMAIN cacheFiles)
    /\ call.n > 0 =>
           (DOMAIN cacheFiles \ DOMAIN call.before.cache)
               \subseteq (IF call.op \in WriteOps THEN {call.key} ELSE {})

\* get found an entry older than 24 hours, returned nothing and removed it
C12_Witness ==
    /\ call.op = "get"
    /\ ReadOfEntry
    /\ AgeAtRead > 24
    /\ call.ret = None
    /\ call.key \notin DOMAIN cacheFiles

\* C13: get, clear, stats and the orchestrator's cache read never raise: a
\* damaged record (empty file, non-mapping content, missing or malformed
\* cached_at) is treated as a miss.
C13_CacheOpsNeverRaise ==
    call.op \in {"get", "clear", "stats", "read"} => call.exc = "none"

\* a counter of cache/meta.yaml, 0 while the file or the key is missing
MetaCount(meta, k) == IF IsAbsent(meta) THEN 0 ELSE Get(OrEmpty(meta), k, 0)

\* the change of a counter by the last call
MetaDelta(k) == MetaCount(metaFile, k) - MetaCount(call.before.meta, k)

\* C30: every write of a response cache entry, by CacheEngine.set and by the
\* orchestrator's _write_cache alike, leaves under the fingerprint an entry
\* with cached_at = now, the payload and a size estimate, and adds exactly one
\* to the sets counter of cache/meta.yaml, which is what stats reports as sets.
C30_EveryWriteCounted ==
    call.op \in WriteOps =>
        /\ call.key \in DOMAIN cacheFiles
        /\ DOMAIN cacheFiles[call.key] = {"cached_at", "response", "tokens_estimate"}
        /\ cacheFiles[call.key].cached_at = isoformat(call.at)
        /\ cacheFiles[call.key].response = call.arg
        /\ MetaDelta("sets") = 1

\* C14: a read that returns a payload adds 1 to hits and 500 to tokens_saved; a
\* read that misses or finds an expired entry, and every set and clear, change
\* neither; so tokens_saved = 500 * hits throughout.
C14_HitAccounting ==
    /\ MetaCount(metaFile, "tokens_saved") = 500 * MetaCount(metaFile, "hits")
    /\ (call.op \in ReadOps /\ call.ret # None) =>
           (MetaDelta("hits") = 1 /\ MetaDelta("tokens_saved") = 500)
    /\ (call.op \in ReadOps /\ call.ret = None) =>
           (MetaDelta("hits") = 0 /\ MetaDelta("tokens_saved") = 0)
    /\ call.op \in WriteOps \cup {"clear", "stats"} =>
           (MetaDelta("hits") = 0 /\ MetaDelta("tokens_saved") = 0)

\* the second hit of a behaviour, by CacheEngine.get
C14_Witness ==
    /\ call.op = "get"
    /\ call.ret # None
    /\ MetaCount(metaFile, "hits") = 2
    /\ MetaCount(metaFile, "tokens_saved") = 1000

\* C15: a set of a fingerprint leaves exactly one entry for it, holding the
\* value just set, and leaves every other entry as it was; the number of
\* entries grows only when the fingerprint is new; a read within the TTL
\* returns the value of the last set.
C15_SetOverwrites ==
    /\ call.op \in WriteOps =>
           /\ DOMAIN cacheFiles = DOMAIN call.before.cache \cup {call.key}
           /\ cacheFiles[call.key].response = call.arg
           /\ cacheFiles[call.key].cached_at = [iso |-> call.at]
           /\ \A k \in DOMAIN call.before.cache \ {call.key} :
                  cacheFiles[k] = call.before.cache[k]
           /\ Cardinality(DOMAIN cacheFiles) =
                  Cardinality(DOMAIN call.before.cache)
                      + (IF call.key \in DOMAIN call.before.cache THEN 0 ELSE 1)
    /\ (call.op \in ReadOps /\ call.prev.op \in WriteOps /\ call.prev.key = call.key
            /\ call.at - call.prev.at <= 24) => call.ret = call.prev.arg

\* set replaced the entry of a fingerprint that held another value
C15_Witness ==
    /\ call.op = "set"
    /\ call.key \in DOMAIN call.before.cache
    /\ call.before.cache[call.key].response # call.arg
    /\ cacheFiles[call.key].response = call.arg
    /\ Cardinality(DOMAIN cacheFiles) = 1

\* the simultaneous call p has written its cache entry
WroteCache(p) == procs[p].pc # "idle" /\ procs[p].cache_seq > 0

\* p wrote its cache entry, and no simultaneous call wrote the same entry later
WroteLast(p) ==
    /\ WroteCache(p)
    /\ \A q \in Procs \ {p} :
           (WroteCache(q) /\ procs[q].task_id = procs[p].task_id)
               => procs[q].cache_seq < procs[p].cache_seq

\* C22: simultaneous calls are not isolated (both can miss the cache, call the
\* provider and write the entry), and the entry that remains is the one that
\* was written last.
C22_LastWriteWins ==
    \A p \in Procs :
        WroteLast(p) =>
            /\ procs[p].task_id \in DOMAIN cacheFiles
            /\ cacheFiles[procs[p].task_id].response = procs[p].response.content

\* both calls had the same fingerprint, both missed the cache, both called the
\* provider and got different answers, both wrote the entry, and the entry
\* holds the answer of the call that wrote second
C22_Witness ==
    /\ \A p \in Procs : WroteCache(p) /\ procs[p].cached = None
    /\ procs[1].task_id = procs[2].task_id
    /\ procs[1].response # procs[2].response
    /\ procs[1].cache_seq = 2
    /\ procs[2].cache_seq = 1
    /\ cacheFiles[procs[1].task_id].response = procs[1].response.content
    /\ Cardinality(DOMAIN cacheFiles) = 1

----------------------------------------------------------------------------
(* Properties of the state store *)

\* the stored records that load as a TaskState
Readable == {k \in DOMAIN store : Loadable(store[k].doc)}

StateOf(k) == from_dict(store[k].doc)

\* C18: after cleanup(max_age = A, max_count = C) no surviving record is older
\* than A days, at most C records remain, and the returned count is the number
\* of records deleted.
C18_CleanupBounds ==
    call.op = "cleanup" =>
        /\ \A k \in DOMAIN store :
               HasUpdatedAt(store[k].doc) =>
                   call.at - fromisoformat(store[k].doc.updated_at)
                       <= HoursPerDay * call.arg.max_age_days
        /\ Cardinality(DOMAIN store) <= call.arg.max_count
        /\ call.ret.deleted =
               Cardinality(DOMAIN call.before) - Cardinality(DOMAIN store)

\* C19: list_resumable returns, without raising, exactly the stored states
\* whose status is pending, running or paused, each once, the most recently
\* updated first; records that do not load are left out.
C19_ListResumable ==
    call.op = "list_resumable" =>
        LET states == call.ret.states
        IN  /\ call.exc = "none"
            /\ {states[i].task_id : i \in 1..Len(states)} =
                   {k \in Readable : StateOf(k).status \in {"pending", "running", "paused"}}
            /\ \A i \in 1..Len(states) : states[i] = StateOf(states[i].task_id)
            /\ \A i, j \in 1..Len(states) :
                   /\ i # j => states[i].task_id # states[j].task_id
                   /\ i < j => states[i].updated_at >= states[j].updated_at

\* list_resumable returned two states, the later updated one first, and left
\* out a completed state
C19_Witness ==
    /\ call.op = "list_resumable"
    /\ Len(call.ret.states) = 2
    /\ call.ret.states[1].updated_at > call.ret.states[2].updated_at
    /\ \E k \in Readable : StateOf(k).status = "completed"

\* the most recently modified record among ks
Newest(ks) == CHOOSE k \in ks : \A x \in ks : store[k].mtime >= store[x].mtime

NonTerminalKeys == {k \in Readable : StateOf(k).status \notin {"completed", "error"}}

\* C20 as stated: load_latest returns the most recently modified state that is
\* neither completed nor error, and nothing when there is none.
C20_LatestNonTerminalOrAbsent ==
    call.op = "load_latest" =>
        call.ret = IF NonTerminalKeys = {} THEN None ELSE StateOf(Newest(NonTerminalKeys))

\* C20 amended: load_latest returns, without raising, the most recently
\* modified state that is neither completed nor error, skipping records that do
\* not load; when there is none it returns the most recently modified record
\* of the store if that record loads, and nothing otherwise.
C20_LatestNonTerminalElseNewest ==
    call.op = "load_latest" =>
        /\ call.exc = "none"
        /\ store = call.before
        /\ call.ret =
               IF NonTerminalKeys # {} THEN StateOf(Newest(NonTerminalKeys))
               ELSE IF DOMAIN store = {} THEN None
               ELSE IF Newest(DOMAIN store) \in Readable
               THEN StateOf(Newest(DOMAIN store))
               ELSE None

\* load_latest returned a running state although a record that does not load
\* and an error state were written after it
C20_Witness ==
    /\ call.op = "load_latest"
    /\ call.ret # None
    /\ call.ret.status = "running"
    /\ \E k \in DOMAIN store \ Readable : store[k].mtime > store[call.ret.task_id].mtime
    /\ \E k \in Readable :
           /\ StateOf(k).status = "error"
           /\ store[k].mtime > store[call.ret.task_id].mtime

---------------------------------------------------------------------------------------------------------------------------------------------------
(* Properties of the records of single keys                                  *)

\* what load returns for a key in a state directory
LoadOf(st, k) ==
    IF k \notin DOMAIN st THEN [ret |-> None, exc |-> "none"]
    ELSE IF Loadable(st[k].doc) THEN [ret |-> from_dict(st[k].doc), exc |-> "none"]
    ELSE [ret |-> None, exc |-> "raised"]

\* C31: each key maps to exactly one record: after save of s, load of s's key
\* returns s and the record holds nothing but s (a full overwrite); load
\* returns what the record of its key holds and changes nothing; and a save,
\* a save cut short mid-write, or a delete of one key changes what load
\* returns for no other key.
C31_OneRecordPerKey ==
    call.op \in {"save", "save_cut", "load", "delete"} =>
        /\ \A k \in StateKeys \ {call.key} : LoadOf(store, k) = LoadOf(call.before, k)
        /\ call.op = "save" =>
               /\ LoadOf(store, call.key) = [ret |-> call.arg, exc |-> "none"]
               /\ store[call.key].doc = to_dict(call.arg)
        /\ call.op = "load" =>
               /\ store = call.before
               /\ [ret |-> call.ret, exc |-> call.exc] = LoadOf(store, call.key)
        /\ call.op = "delete" => LoadOf(store, call.key) = [ret |-> None, exc |-> "none"]

\* a save overwrote a different record of its key while another key held one
C31_Witness ==
    /\ call.op = "save"
    /\ call.key \in DOMAIN call.before
    /\ call.before[call.key].doc # to_dict(call.arg)
    /\ \E k \in DOMAIN store \ {call.key} : LoadOf(store, k).ret # None

\* a save cut short left a record that load cannot read, others intact
C31_WitnessCut ==
    /\ call.op = "save_cut"
    /\ LoadOf(store, call.key).exc = "raised"
    /\ \E k \in DOMAIN store \ {call.key} : LoadOf(store, k).ret # None

----------------------------------------------------------------------------
(* Properties of the workflow engine                                         *)

\* C39: resume(workflow_id) returns the workflow as the most recently written
\* checkpoint of that workflow records it (the post_step_i checkpoint of the
\* last completed step, when the last checkpoint written is one).
C39_ResumeFromLastCheckpoint ==
    (call.op = "resume" /\ call.latest # <<>>) =>
        call.ret = _workflow_from_state(
                       ckpts[CheckpointFile(WorkflowId, call.latest)].context.workflow)

\* the indices of the steps whose handler execute called
Ran == {call.ran[k] : k \in 1..Len(call.ran)}

\* C40: when execute returns, workflow.status is 'completed' if every step is
\* COMPLETED and 'failed' otherwise, never 'running', whatever the outcomes of
\* the steps and their on_error policies; and no step after a failed step
\* with on_error = 'stop' is executed.
C40_ExecuteEndsTerminal ==
    call.op = "execute" =>
        LET steps == call.ret.steps
            done == \A j \in 1..Len(steps) : steps[j].status = "completed"
        IN  /\ call.ret.status = (IF done THEN "completed" ELSE "failed")
            /\ \A i \in Ran :
                   (steps[i + 1].status = "failed" /\ steps[i + 1].on_error = "stop")
                       => \A j \in Ran : j <= i

-----
(* Properties of the named checkpoints *)

\* C21: named checkpoints are scoped to their key: list_checkpoints(key)
\* returns exactly the names saved under that key, and load_checkpoint(key,
\* name) returns the state last saved under that (key, name) pair, and nothing
\* when none was saved under it.
C21_CheckpointsScopedToKey ==
    /\ call.op = "list_checkpoints" =>
           LET names == call.ret.names
           IN  /\ {names[i] : i \in 1..Len(names)} =
                      {kn[2] : kn \in {x \in DOMAIN Saved(call) : x[1] = call.arg.task_id}}
               /\ \A i, j \in 1..Len(names) : i # j => names[i] # names[j]
    /\ call.op = "load_checkpoint" =>
           /\ call.exc = "none"
           /\ call.ret = Get(Saved(call), <<call.arg.task_id, call.arg.checkpoint_name>>, None)

----------------------------------------------------------------------------
(* Properties of the edits of one response *)

\* C23: the edits parsed from a response are applied in the order in which
\* their blocks appear in the response text, also when EDIT and CREATE blocks
\* are interleaved.
C23_EditsInTextOrder ==
    call.op = "response" =>
        /\ call.edits = MapEdit(call.blocks)
        /\ Len(call.applied) = Len(call.blocks)
        /\ \A i \in 1..Len(call.blocks) :
               /\ call.applied[i].file = call.blocks[i].file
               /\ call.applied[i].action =
                      (IF call.blocks[i].kind = "CREATE" THEN "create" ELSE "edit")

\* the reasons of a failed edit
FailureReasons == {"file not found", "old content not found"}

\* C24: a failed edit (file missing, or old_content not in the file) gives one
\* record with applied = false and a reason, leaves the workspace as it was,
\* and the edits after it are still applied; the result holds one record per
\* parsed edit, in the order of application.
C24_FailedEditNonFatal ==
    call.op = "response" =>
        /\ Len(call.applied) = Len(call.edits)
        /\ Len(call.trail) = Len(call.edits) + 1
        /\ call.trail[Len(call.trail)] = ws
        /\ \A i \in 1..Len(call.edits) :
               LET e == call.edits[i]
                   w == call.trail[i]
                   missing == w[e.file_path] = Absent
                   fails == ~e.is_create /\
                            (missing \/ \A k \in 1..(Len(w[e.file_path].content) + 1) :
                                            ~StartsAt(e.old_content, w[e.file_path].content, k))
               IN  /\ call.applied[i].file = e.file_path
                   /\ call.applied[i].applied = ~fails
                   /\ fails =>
                          /\ call.applied[i].error \in FailureReasons
                          /\ missing <=> call.applied[i].error = "file not found"
                          /\ call.trail[i + 1] = w
                   /\ ~fails =>
                          /\ call.trail[i + 1][e.file_path] # Absent
                          /\ call.trail[i + 1][e.file_path] # w[e.file_path]

\* an edit whose old content is not in the file failed and left the workspace
\* as it was, and the edit after it was applied
C24_Witness ==
    /\ call.op = "response"
    /\ Len(call.edits) = 2
    /\ ~call.applied[1].applied
    /\ call.applied[1].error = "old content not found"
    /\ call.trail[2] = call.trail[1]
    /\ call.applied[2].applied
    /\ ws # call.trail[1]

----------------------------------------------------------------------------
(* Properties of the edit-test loop *)

InLoopCall == lp.mode \in {"run", "resume"}

LoopReturned == pc = "returned" /\ InLoopCall /\ lp.ret # None

\* C1: run(task, files, max_iterations = N) executes at most N iterations, and
\* starts no iteration after an iteration whose tests passed.
C1_AtMostNAndStopAtPass ==
    lp.mode = "run" =>
        /\ obs.iters <= lp.max_iterations
        /\ Len(lp.iterations) <= lp.max_iterations
        /\ ~obs.afterPass
        /\ \A j \in 1..Len(lp.iterations) :
               lp.iterations[j].test_passed => j = Len(lp.iterations)

\* a run with N = 3 that returned after its second iteration, which passed
C1_Witness ==
    /\ pc = "returned"
    /\ lp.mode = "run"
    /\ lp.max_iterations = 3
    /\ obs.iters = 2
    /\ lp.ret.success

\* C2: whenever run() or resume() returns a LoopResult, the persisted
\* checkpoint's status is terminal: completed or failed, never running.
C2_TerminalStatusAtExit ==
    LoopReturned => loopFile.status \in {"completed", "failed"}

\* C4: a provider failure inside iteration i does not abort the loop: it becomes
\* iteration i's failing IterationResult, which the loop then checkpoints.
C4_ProviderFailureIsFailingIteration ==
    [][(pc = "loop_iter" /\ obs'.pfail = obs.pfail + 1) =>
          /\ pc' = "loop_ckpt"
          /\ lp'.result # None
          /\ lp'.result.iteration = lp.i
          /\ ~lp'.result.test_passed]_vars

\* the records of a checkpoint's "iterations" list that IterationResults stand for
RECURSIVE AsRecords(_)
AsRecords(iterations) ==
    IF iterations = <<>> THEN <<>>
    ELSE LET r == Head(iterations)
         IN  << [number |-> r.iteration, edits |-> r.edits_applied,
                 test_passed |-> r.test_passed, test_output |-> r.test_output,
                 tokens |-> r.tokens_used] >> \o AsRecords(Tail(iterations))

IsPrefix(s, t) == Len(s) <= Len(t) /\ SubSeq(t, 1, Len(s)) = s

\* C5: a resume of a checkpoint at iteration k numbers its iterations k+1, k+2,
\* ..., and the records the checkpoint held stay, unchanged, a prefix of every
\* checkpoint written since and of the iterations of the LoopResult.
C5_ResumeContinuity ==
    lp.mode = "resume" =>
        LET old == lp.state.iterations
            k == lp.state.iteration
        IN  /\ IsPrefix(old, loopFile.iterations)
            /\ IsPrefix(old, AsRecords(lp.iterations))
            /\ \A j \in (Len(old) + 1)..Len(lp.iterations) :
                   lp.iterations[j].iteration = k + (j - Len(old))
            /\ lp.result # None => lp.result.iteration = k + 1 + (Len(lp.iterations) - Len(old))
            /\ LoopReturned => IsPrefix(old, AsRecords(lp.ret.iterations))

\* a resume of a checkpoint that held an iteration has returned after running more
C5_Witness ==
    /\ LoopReturned
    /\ lp.mode = "resume"
    /\ lp.state.iteration >= 1
    /\ lp.state.iterations # <<>>
    /\ Len(lp.ret.iterations) > Len(lp.state.iterations)

\* C11: when run() returns, the number of IterationResults is the index of the
\* first passing iteration, or max_iterations if none passed, and the persisted
\* status is completed if the last iteration passed and failed otherwise.
C11_ResultCountAndFinalStatus ==
    (LoopReturned /\ lp.mode = "run") =>
        LET its == lp.ret.iterations
            n == Len(its)
            passing == {j \in 1..n : its[j].test_passed}
        IN  /\ n = obs.iters
            /\ \A j \in 1..n : its[j].iteration = j
            /\ passing # {} => passing = {n}
            /\ passing = {} => n = lp.max_iterations
            /\ loopFile.status = IF n > 0 /\ its[n].test_passed
                                  THEN "completed" ELSE "failed"
            /\ Len(loopFile.iterations) = n
            /\ loopFile.iteration = n

\* run with max_iterations = 3 returned three failing results, status failed
C11_Witness ==
    /\ LoopReturned
    /\ lp.mode = "run"
    /\ lp.max_iterations = 3
    /\ Len(lp.ret.iterations) = 3
    /\ \A j \in 1..3 : ~lp.ret.iterations[j].test_passed
    /\ loopFile.status = "failed"

\* C33: in every LoopCheckpoint persisted by run() or resume(), the iteration
\* field equals the number of iteration records, the records are numbered
\* 1..iteration, iteration <= max_iterations, and at most the last record has
\* test_passed = true; the records are those of the iterations that have
\* returned, so an iteration under way is never recorded.
C33_CheckpointWellFormed ==
    loopFile # Absent =>
        /\ loopFile.iteration = Len(loopFile.iterations)
        /\ \A j \in 1..Len(loopFile.iterations) : loopFile.iterations[j].number = j
        /\ loopFile.iteration <= loopFile.max_iterations
        /\ \A j \in 1..(Len(loopFile.iterations) - 1) :
               ~loopFile.iterations[j].test_passed
        /\ InLoopCall => loopFile.iterations = CkptIterations(lp.iterations)

\* resume() has recorded a passing iteration after a failing one that run()
\* had recorded, while no iteration is under way
C33_Witness ==
    /\ loopFile # Absent
    /\ lp.mode = "resume"
    /\ "loop" \in obs.wrote
    /\ Len(loopFile.iterations) >= 2
    /\ ~loopFile.iterations[1].test_passed
    /\ loopFile.iterations[Len(loopFile.iterations)].test_passed
    /\ loopFile.status = "completed"

\* C27: the test command is detected once per run(): every iteration of the
\* run, and of a later resume, executes the test command that the initial
\* checkpoint records, also when the edits of the run add or change the files
\* that detection probes.
C27_TestCommandDetectedOnce ==
    InLoopCall =>
        /\ loopFile.test_command = lp.test_command
        /\ \A j \in 1..Len(lp.iterations) :
               lp.iterations[j].test_command = lp.test_command
        /\ pc = "loop_ckpt" => lp.result.test_command = lp.test_command

\* a call of resume() begins in this step
ResumeBegins == obs'.runs = obs.runs + 1 /\ obs'.kind = "resume"

\* C26: resume() refuses when there is no checkpoint or the checkpoint's status
\* is not running: it returns no result at once, without a provider call, an
\* edit or a test run, and leaves the checkpoint and every other file as they
\* were.
C26_ResumeRefuses ==
    [][ (ResumeBegins /\ Get(loopFile, "status", "none") # "running") =>
            /\ pc' = "returned"
            /\ lp'.ret = None
            /\ obs'.provider = 0
            /\ obs'.iters = 0
            /\ obs'.wrote = {}
            /\ loopFile' = loopFile
            /\ ws' = ws
            /\ UNCHANGED <<stateFile, convFile, cacheFiles, metaFile, historyFile>> ]_vars

\* resume() returned nothing on a checkpoint whose loop had completed
C26_Witness ==
    /\ obs.kind = "resume"
    /\ pc = "returned"
    /\ lp.ret = None
    /\ obs.iters = 0
    /\ loopFile # Absent
    /\ loopFile.status = "completed"
    /\ Len(loopFile.iterations) > 0

----------------------------------------------------------------------------
(* Properties of Agent.run *)

InAgentRun == obs.kind = "agent"

AgentReturned == InAgentRun /\ pc = "returned"

AgentRaised == InAgentRun /\ pc = "raised"

\* C3: Agent.run lets no provider failure (nor edit conflict, test timeout or
\* test failure) escape as an exception, on the loop path and the single path.
C3_NoProviderFailureEscapes ==
    AgentRaised => obs.pfail = 0

\* C6: an interrupt anywhere on the single-completion path leaves the persisted
\* TaskState paused when it reaches the caller.
C6_InterruptLeavesPaused ==
    (AgentRaised /\ obs.path = "single" /\ obs.exc = "KeyboardInterrupt") =>
        (stateFile # Absent /\ stateFile.status = "paused")

\* C7: a failure other than an interrupt on the single-completion path is not
\* raised: run persists status error with the message and returns
\* TaskResult(completed = false, error = message).
C7_FailureReturnsError ==
    (InAgentRun /\ obs.path = "single") =>
        /\ (pc = "raised" => obs.exc = "KeyboardInterrupt")
        /\ (pc = "returned" /\ ~inv.result.completed) =>
               /\ stateFile.status = "error"
               /\ stateFile.error = inv.result.error

\* C8: an invocation that returns has written state, conversation, history and
\* cache.
C8_AllRecordsPersisted ==
    AgentReturned => {"state", "conversation", "history", "cache"} \subseteq obs.wrote

\* the cache held an unexpired entry for the task id when the invocation began
UnexpiredEntryAtStart ==
    /\ InAgentRun
    /\ inv.task_id \in DOMAIN obs.start.cache
    /\ ~ExpiredAt(obs.start.cache[inv.task_id], obs.start.clock)

\* the history file of the invocation's day, before the invocation and now
HistoryAtStart == Get(obs.start.history, obs.start.clock \div 24, <<>>)
HistoryNow == Get(historyFile, obs.start.clock \div 24, <<>>)

\* C9: with an unexpired cache entry for the task id, run calls neither the
\* provider nor the loop, and returns cached = true, tokens_used = 0 and the
\* cached payload, having appended one history entry with cached = true.
C9_CacheHitAnswersFromCache ==
    (UnexpiredEntryAtStart /\ pc # "cache_check") =>
        /\ obs.provider = 0
        /\ obs.loops = 0
        /\ pc = "returned" =>
               /\ inv.result.cached
               /\ inv.result.tokens_used = 0
               /\ inv.result.output = obs.start.cache[inv.task_id].response
               /\ Len(HistoryNow) = Len(HistoryAtStart) + 1
               /\ HistoryNow[Len(HistoryNow)].cached

\* the tasks that ask for a code change: a coding verb with a coding noun or
\* with a file name
CodingTasks == {"Fix auth.py", "add unit tests"}

\* C10: after a cache miss run takes the loop iff files is non-empty and the
\* task is a coding task, and the single completion otherwise; one path per
\* invocation; on the loop path completed is the loop's success flag.
C10_StrategySelection ==
    (InAgentRun /\ (pc = "returned" \/ obs.path # "none")) =>
        /\ obs.path \in {"cached", "loop", "single"}
        /\ obs.path # "cached" =>
               (obs.path = "loop" <=> (inv.files # <<>> /\ inv.task \in CodingTasks))
        /\ obs.path = "cached" => (obs.loops = 0 /\ obs.provider = 0)
        /\ obs.path = "loop" => (obs.loops <= 1 /\ obs.provider = obs.iters)
        /\ obs.path = "single" => (obs.loops = 0 /\ obs.iters = 0 /\ obs.provider <= 1)
        /\ (pc = "returned" /\ obs.path = "single" /\ inv.result.completed) => obs.provider = 1
        /\ (pc = "returned" /\ obs.path = "loop") =>
               (obs.loops = 1 /\ inv.result.completed = lp.ret.success)

\* run returned from the loop path with a failed loop, completed = false
C10_Witness ==
    /\ AgentReturned
    /\ obs.path = "loop"
    /\ ~lp.ret.success
    /\ ~inv.result.completed

ExchangePersisted ==
    /\ convFile # Absent
    /\ Len(convFile) >= 2
    /\ convFile[Len(convFile) - 1] = [role |-> "user", content |-> TaskText(inv.task)]
    /\ convFile[Len(convFile)] = [role |-> "assistant", content |-> inv.response.content]

\* the cache holds the response of this invocation under its task id
CachePersisted ==
    /\ inv.task_id \in DOMAIN cacheFiles
    /\ cacheFiles[inv.task_id].response = inv.response.content

StatusPersisted(status) == stateFile # Absent /\ stateFile.status = status

\* C25: on the single-completion path TaskState running is written before the
\* provider is called, and after the provider has answered the conversation
\* with the exchange, the cache entry, TaskState completed and one history
\* entry with cached = false are written in this order before run returns.
\* (The conversation is looked at until the last write of run: once run has
\* returned, clear_conversation may remove it.)
C25_PersistedInOrder ==
    (InAgentRun /\ obs.path = "single") =>
        /\ pc \in {"context", "mark_running"} => (obs.wrote = {} /\ obs.provider = 0)
        /\ pc = "execute" =>
               (obs.provider = 0 /\ obs.wrote = {"state"} /\ StatusPersisted("running"))
        /\ pc = "write_conv" =>
               (obs.provider = 1 /\ obs.wrote = {"state"} /\ StatusPersisted("running"))
        /\ pc = "write_cache" =>
               (obs.wrote = {"state", "conversation"} /\ ExchangePersisted
                /\ StatusPersisted("running"))
        /\ pc = "write_state" =>
               (obs.wrote = {"state", "conversation", "cache"} /\ ExchangePersisted
                /\ CachePersisted /\ StatusPersisted("running"))
        /\ pc = "write_history" =>
               (obs.wrote = {"state", "conversation", "cache"} /\ ExchangePersisted
                /\ CachePersisted /\ StatusPersisted("completed")
                /\ HistoryNow = HistoryAtStart)
        /\ (pc = "returned" /\ inv.result.completed) =>
               /\ obs.wrote = {"state", "conversation", "cache", "history"}
               /\ CachePersisted
               /\ StatusPersisted("completed")
               /\ Len(HistoryNow) = Len(HistoryAtStart) + 1
               /\ SubSeq(HistoryNow, 1, Len(HistoryAtStart)) = HistoryAtStart
               /\ ~HistoryNow[Len(HistoryNow)].cached
               /\ HistoryNow[Len(HistoryNow)].response_preview =
                      Take(inv.response.content, PreviewLen)

\* a second invocation completed on the single-completion path, on top of the
\* conversation and the history of the first
C25_Witness ==
    /\ AgentReturned
    /\ obs.path = "single"
    /\ inv.result.completed
    /\ Len(HistoryNow) = 2
    /\ convFile # Absent
    /\ Len(convFile) = 4
    /\ StatusPersisted("completed")

\* the second invocation of a behaviour has passed its cache check, and the
\* first was a successful single completion of the same task and file stamps
\* that returned at this very time and whose exchange still ends the
\* conversation
FirstState == obs.start.state

FirstId == FirstState.task_id

RepeatedRightAfter ==
    /\ obs.runs = 2
    /\ obs.kind = "agent"
    /\ pc # "cache_check"
    /\ FirstState # Absent
    /\ Get(FirstState, "status", "none") = "completed"
    /\ FirstState.current_task = inv.task
    /\ FirstId.files = inv.task_id.files
    /\ FirstState.completed_at = obs.start.clock
    /\ obs.start.conv # Absent
    /\ Len(obs.start.conv) >= 2
    /\ FirstId \in DOMAIN obs.start.cache
    /\ SubSeq(obs.start.conv, Len(obs.start.conv) - 1, Len(obs.start.conv))
           = << [role |-> "user", content |-> TaskText(inv.task)],
                [role |-> "assistant", content |-> obs.start.cache[FirstId].response] >>

\* the conversation as the first invocation read it
ConvBeforeFirst == SubSeq(obs.start.conv, 1, Len(obs.start.conv) - 2)

C34_WitnessMiss ==
    /\ RepeatedRightAfter
    /\ pc = "returned"
    /\ inv.result.completed
    /\ LastN(obs.start.conv, 4) # LastN(ConvBeforeFirst, 4)
    /\ obs.provider = 1

\* C35: whenever Agent.run returns completed = false, the invocation has
\* written no cache entry and has left the persisted conversation as it found
\* it, whichever step of the single-completion path failed.
C35_FailureAtomic ==
    (pc = "returned" /\ obs.kind = "agent" /\ ~inv.result.completed) =>
        /\ "conversation" \notin obs.wrote
        /\ "cache" \notin obs.wrote

\* C36: the orchestrator counts a cache hit (hits + 1, tokens_saved + 500 in
\* cache/meta.yaml) only in invocations that return the cached answer without
\* calling the provider: an invocation that goes on to the coding loop or to
\* a single completion leaves the counters as it found them, whatever payload
\* the cache entry holds.
C36_HitCountedOnlyWhenServed ==
    (obs.kind = "agent" /\ pc # "cache_check"
         /\ (MetaCount(metaFile, "hits") # MetaCount(obs.start.meta, "hits")
                 \/ MetaCount(metaFile, "tokens_saved")
                        # MetaCount(obs.start.meta, "tokens_saved"))) =>
        /\ obs.path = "cached"
        /\ obs.provider = 0
        /\ obs.loops = 0

\* C37: across any sequence of Agent.run invocations the persisted TaskState
\* carries an error message only while its status is 'error': a record whose
\* status is 'running' or 'completed' holds no error field of an earlier
\* failed invocation.
C37_ErrorOnlyWithErrorStatus ==
    (stateFile # Absent /\ "error" \in DOMAIN stateFile) => stateFile.status = "error"

\* invocations that have counted a cache hit, and that have returned after
\* appending to the history
Counted == {p \in Procs : procs[p].pc # "idle" /\ procs[p].counted}

Logged == {p \in Procs : procs[p].pc = "returned" /\ procs[p].error = None}

HistoryToday == Get(historyFile, Today, <<>>)

\* C38: the hit counter of cache/meta.yaml and the daily history list are
\* updated by unlocked read-modify-write sequences: what an invocation writes
\* is the value it read earlier plus its own update, whatever the file holds
\* by then, so the file never counts more than the updates made and, with two
\* simultaneous invocations, can count fewer (a lost update).
C38_UnlockedReadModifyWrite ==
    [][ /\ \A p \in Procs :
               /\ (procs[p].pc = "meta_write" /\ procs'[p].pc # "meta_write") =>
                      /\ MetaCount(metaFile', "hits")
                             = MetaCount(procs[p].meta, "hits") + 1
                      /\ MetaCount(metaFile', "tokens_saved")
                             = MetaCount(procs[p].meta, "tokens_saved") + 500
               /\ (procs[p].pc = "history_write" /\ procs'[p].pc = "returned") =>
                      /\ Len(HistoryToday') = Len(procs[p].history) + 1
                      /\ SubSeq(HistoryToday', 1, Len(procs[p].history))
                             = procs[p].history
        /\ MetaCount(metaFile', "hits") <= Cardinality(Counted')
        /\ Len(HistoryToday') <= Cardinality(Logged')
      ]_vars

\* both invocations returned the cached answer and the counter says one hit
C38_Witness ==
    /\ \A p \in Procs : procs[p].pc = "returned" /\ procs[p].hit /\ procs[p].counted
    /\ MetaCount(metaFile, "hits") = 1

\* both invocations returned and the history of the day holds one entry
C38_WitnessHistory ==
    /\ \A p \in Procs : procs[p].pc = "returned" /\ procs[p].error = None
    /\ Len(HistoryToday) = 1

====
